---- MODULE Spec2Model ----
(***************************************************************************)
(* A model of absfs/permfs: the ACL evaluator, the permission cache, the   *)
(* audit logger and the PermFS interceptor.                                *)
(*                                                                         *)
(* Strings are sequences of one-character strings, so that cleaning,       *)
(* splitting, glob matching and key formatting are computed character by   *)
(* character as the Go code computes them.                                  *)
(***************************************************************************)
EXTENDS Integers, Sequences, FiniteSets, TLC

(***************************************************************************)
(* Bounds of the model.                                                    *)
(***************************************************************************)
MaxEntries == 2      \* longest ACL entry list explored by the evaluator specification
MaxPriority == 1     \* priorities are drawn from 0..MaxPriority
MaxCalls == 2        \* intercepted calls started in one behaviour
MaxMutations == 1    \* AddRule/RemoveRule calls in one behaviour
CacheMaxSize == 2    \* PerformanceConfig.CacheMaxSize of the modelled instance
CacheTTL == 1        \* PerformanceConfig.CacheTTL, in clock ticks
MaxTime == 2         \* the clock stops ticking here
MaxCacheOps == 4     \* cache calls started in one behaviour of the cache specification
MaxEvents == 3       \* events handed to Log in one behaviour of the audit specification
BufferSize == 1      \* AuditConfig.BufferSize
MaxPathLen == 4      \* longest path handed to the pattern matcher

(***************************************************************************)
(* strings                                                                 *)
(***************************************************************************)
Range(s) == {s[i] : i \in 1..Len(s)}

\* strings.Split(s, "/"): the pieces between separators, empty pieces kept
RECURSIVE SplitFrom(_, _, _, _)
SplitFrom(s, i, cur, acc) ==
  IF i > Len(s) THEN Append(acc, cur)
  ELSE IF s[i] = "/" THEN SplitFrom(s, i + 1, <<>>, Append(acc, cur))
  ELSE SplitFrom(s, i + 1, Append(cur, s[i]), acc)

Split(s) == SplitFrom(s, 1, <<>>, <<>>)

\* strings.Join(parts, "/")
RECURSIVE Join(_)
Join(parts) ==
  IF Len(parts) = 0 THEN <<>>
  ELSE IF Len(parts) = 1 THEN parts[1]
  ELSE parts[1] \o <<"/">> \o Join(Tail(parts))

\* the element stack path.Clean builds: "" and "." are dropped, ".." pops the
\* last real element, is kept in front of a relative path and is dropped at
\* the root
RECURSIVE CleanStack(_, _, _, _)
CleanStack(parts, i, rooted, out) ==
  IF i > Len(parts) THEN out
  ELSE LET p == parts[i] IN
    IF p = <<>> \/ p = <<".">> THEN CleanStack(parts, i + 1, rooted, out)
    ELSE IF p = <<".", ".">> THEN
      IF Len(out) > 0 /\ out[Len(out)] # <<".", ".">>
        THEN CleanStack(parts, i + 1, rooted, SubSeq(out, 1, Len(out) - 1))
      ELSE IF ~rooted THEN CleanStack(parts, i + 1, rooted, Append(out, p))
      ELSE CleanStack(parts, i + 1, rooted, out)
    ELSE CleanStack(parts, i + 1, rooted, Append(out, p))

\* variant: paths are taken as they are spelled
CleanNone(s) == s

\* path.Clean (filepath.Clean and ToSlash agree with it on "/"-separated paths)
Clean(s) ==
  IF Len(s) = 0 THEN <<".">>
  ELSE LET rooted == s[1] = "/"
           out == CleanStack(Split(s), 1, rooted, <<>>)
       IN IF rooted THEN <<"/">> \o Join(out)
          ELSE IF Len(out) = 0 THEN <<".">> ELSE Join(out)

\* a pattern path.Match reports ErrBadPattern for.  The alphabet of the model
\* has "[" but neither "]" nor "\", so a pattern is malformed exactly when it
\* holds a "[" (path.Match scans the whole pattern for syntax errors, also
\* past the point where the match failed)
BadPattern(p) == "[" \in Range(p)

\* path.Match, the matched value, for patterns made of literals, "*" and "?":
\* "*" matches a run of non-separator characters, "?" one non-separator
\* character; an unclosed "[" matches nothing
RECURSIVE Match(_, _)
Match(p, s) ==
  IF Len(p) = 0 THEN Len(s) = 0
  ELSE IF p[1] = "[" THEN FALSE
  ELSE IF p[1] = "*" THEN
    \E k \in 0..Len(s) :
      /\ \A j \in 1..k : s[j] # "/"
      /\ Match(Tail(p), SubSeq(s, k + 1, Len(s)))
  ELSE IF p[1] = "?" THEN
    Len(s) > 0 /\ s[1] # "/" /\ Match(Tail(p), Tail(s))
  ELSE Len(s) > 0 /\ s[1] = p[1] /\ Match(Tail(p), Tail(s))

\* a returned (bool, error): (matched, nil) or (false, ErrInvalidPattern)
Matched(b) == [matched |-> b, err |-> FALSE]
ErrInvalidPattern == [matched |-> FALSE, err |-> TRUE]

\* variant: no pattern is taken to hold a "**"
ContainsDoubleStarNever(p) == FALSE

\* strings.Contains(pattern, "**")
ContainsDoubleStar(p) == \E i \in 1..(Len(p) - 1) : p[i] = "*" /\ p[i + 1] = "*"

RECURSIVE matchSegments(_, _, _, _)
RECURSIVE matchSegmentsFrom(_, _, _, _)
\* matchSegments
matchSegments(patternParts, pathParts, pi, pathi) ==
  IF pi > Len(patternParts) THEN Matched(pathi > Len(pathParts))
  ELSE IF pathi > Len(pathParts) THEN
    Matched(\A i \in pi..Len(patternParts) : patternParts[i] = <<"*", "*">>)
  ELSE IF patternParts[pi] = <<"*", "*">> THEN
    LET zero == matchSegments(patternParts, pathParts, pi + 1, pathi) IN
      IF zero.err \/ zero.matched THEN zero
      ELSE matchSegmentsFrom(patternParts, pathParts, pi, pathi)
  ELSE IF BadPattern(patternParts[pi]) THEN ErrInvalidPattern
  ELSE IF ~Match(patternParts[pi], pathParts[pathi]) THEN Matched(FALSE)
  ELSE matchSegments(patternParts, pathParts, pi + 1, pathi + 1)

\* matchSegments, the loop of its "**" case: the "**" at pi takes the path
\* segments up to i; the first attempt that matches or fails ends the loop
matchSegmentsFrom(patternParts, pathParts, pi, i) ==
  IF i > Len(pathParts) THEN Matched(FALSE)
  ELSE LET r == matchSegments(patternParts, pathParts, pi + 1, i + 1) IN
    IF r.err \/ r.matched THEN r
    ELSE matchSegmentsFrom(patternParts, pathParts, pi, i + 1)

matchDoubleStarPattern(pattern, path) ==
  matchSegments(Split(pattern), Split(path), 1, 1)

\* matchPattern: both sides cleaned, then equality, the ** matcher or path.Match
matchPattern(pattern, pathStr) ==
  LET p == Clean(pattern)
      s == Clean(pathStr)
  IN IF p = s THEN Matched(TRUE)
     ELSE IF ContainsDoubleStar(p) THEN matchDoubleStarPattern(p, s)
     ELSE IF BadPattern(p) THEN ErrInvalidPattern
     ELSE Matched(Match(p, s))

\* strings.ContainsAny(pattern, "*?")
HasGlob(p) == \E i \in 1..Len(p) : p[i] \in {"*", "?"}

\* NewPatternMatcher: the cleaned pattern and whether it holds a wildcard;
\* the error it returns is always nil
NewPatternMatcher(pattern) ==
  [pattern |-> Clean(pattern), hasGlob |-> HasGlob(Clean(pattern)), err |-> FALSE]

\* PatternMatcher.Match
PatternMatcherMatch(pm, pathStr) ==
  IF ~pm.hasGlob THEN Matched(pm.pattern = Clean(pathStr))
  ELSE matchPattern(pm.pattern, pathStr)

(***************************************************************************)
(* policy model (types.go)                                                 *)
(***************************************************************************)
\* Operation is a bit field; a set of bit names stands for it
OperationRead == {"Read"}
OperationWrite == {"Write"}
OperationExecute == {"Execute"}
OperationDelete == {"Delete"}
OperationMetadata == {"Metadata"}
OperationAdmin == {"Admin"}
OperationAll ==
  OperationRead \cup OperationWrite \cup OperationExecute \cup OperationDelete
    \cup OperationMetadata \cup OperationAdmin
ReadWrite == OperationRead \cup OperationWrite

\* o&op == op
Has(o, op) == (o \cap op) = op

EffectDeny == "Deny"
EffectAllow == "Allow"

User(id) == [Type |-> "User", ID |-> id]
Group(id) == [Type |-> "Group", ID |-> id]
Role(id) == [Type |-> "Role", ID |-> id]
Everyone == [Type |-> "Everyone", ID |-> <<"*">>]

HasGroup(identity, group) == group \in identity.Groups
HasRole(identity, role) == role \in identity.Roles

IdentityMatches(identity, subject) ==
  CASE subject.Type = "User" -> identity.UserID = subject.ID
    [] subject.Type = "Group" -> HasGroup(identity, subject.ID)
    [] subject.Type = "Role" -> HasRole(identity, subject.ID)
    [] subject.Type = "Everyone" -> TRUE
    [] OTHER -> FALSE

\* MetadataCondition.Evaluate, case sensitive: the key is present and its
\* value is one of the allowed values
MetadataConditionEvaluate(cond, ctx) ==
  /\ cond.Key \in DOMAIN ctx.Metadata
  /\ ctx.Metadata[cond.Key] \in cond.Values

\* FuncCondition.Evaluate: the user's function returns true, returns false
\* or panics
FuncConditionEvaluate(cond, ctx) == cond.Func = "true"
FuncConditionPanics(cond) == cond.Func = "panic"

\* Condition.Evaluate, by the type of the condition
ConditionEvaluate(cond, ctx) ==
  IF "Func" \in DOMAIN cond THEN FuncConditionEvaluate(cond, ctx)
  ELSE MetadataConditionEvaluate(cond, ctx)

\* ACLEntry.Matches got as far as the conditions
MatchesSubjectAndPath(e, ctx) ==
  /\ IdentityMatches(ctx.Identity, e.Subject)
  /\ LET m == matchPattern(e.PathPattern, ctx.Path) IN ~m.err /\ m.matched

\* ACLEntry.Matches: subject, then pattern, then every condition
Matches(e, ctx) ==
  /\ MatchesSubjectAndPath(e, ctx)
  /\ \A i \in 1..Len(e.Conditions) : ConditionEvaluate(e.Conditions[i], ctx)

\* ACLEntry.Matches panics: its loop over the conditions reaches a function
\* that panics, every condition before it having held
MatchesPanics(e, ctx) ==
  /\ MatchesSubjectAndPath(e, ctx)
  /\ \E i \in 1..Len(e.Conditions) :
       /\ "Func" \in DOMAIN e.Conditions[i]
       /\ FuncConditionPanics(e.Conditions[i])
       /\ \A j \in 1..(i - 1) : ConditionEvaluate(e.Conditions[j], ctx)

\* ACLEntry.Applies
Applies(e, op) == Has(e.Permissions, op)

(***************************************************************************)
(* evaluator (Evaluator.evaluateUncached)                                  *)
(***************************************************************************)
RECURSIVE SelectMatching(_, _, _)
SelectMatching(entries, ctx, i) ==
  IF i > Len(entries) THEN <<>>
  ELSE IF Matches(entries[i], ctx) /\ Applies(entries[i], ctx.Operation)
    THEN <<entries[i]>> \o SelectMatching(entries, ctx, i + 1)
    ELSE SelectMatching(entries, ctx, i + 1)

matchingEntries(entries, ctx) == SelectMatching(entries, ctx, 1)

\* evaluateUncached panics: its first loop calls Matches on an entry that panics
evaluatePanics(a, ctx) ==
  \E i \in 1..Len(a.Entries) : MatchesPanics(a.Entries[i], ctx)

\* sort.Slice by priority, higher first; it is not stable, so every
\* descending arrangement of the entries is a possible outcome
SortedByPriority(m) ==
  LET n == Len(m)
      perms == {f \in [1..n -> 1..n] : \A i, j \in 1..n : i # j => f[i] # f[j]}
  IN {[i \in 1..n |-> m[f[i]]] : f \in
        {g \in perms : \A i \in 1..(n - 1) : m[g[i]].Priority >= m[g[i + 1]].Priority}}

\* variant: the first two passes look at every matching entry
TopBandAll(sorted) == sorted

\* the entries the first two passes look at: the loop breaks at the first
\* entry below the highest priority
TopBand(sorted) ==
  LET highestPriority == sorted[1].Priority
      stop == {i \in 1..Len(sorted) : sorted[i].Priority < highestPriority}
      last == IF stop = {} THEN Len(sorted)
              ELSE (CHOOSE i \in stop : \A j \in stop : i <= j) - 1
  IN SubSeq(sorted, 1, last)

\* third pass: the first entry in sorted order that is a Deny or an Allow
RECURSIVE FirstEffect(_, _)
FirstEffect(sorted, i) ==
  IF i > Len(sorted) THEN FALSE
  ELSE IF sorted[i].Effect = EffectDeny THEN FALSE
  ELSE IF sorted[i].Effect = EffectAllow THEN TRUE
  ELSE FirstEffect(sorted, i + 1)

\* variant: the first entry in sorted order decides
DecideFirst(sorted) == FirstEffect(sorted, 1)

\* variant: the Allow pass runs before the Deny pass
DecideAllowFirst(sorted) ==
  LET band == TopBand(sorted) IN
  IF \E i \in 1..Len(band) : band[i].Effect = EffectAllow THEN TRUE
  ELSE IF \E i \in 1..Len(band) : band[i].Effect = EffectDeny THEN FALSE
  ELSE FirstEffect(sorted, 1)

\* the three passes over the sorted matching entries
Decide(sorted) ==
  LET band == TopBand(sorted) IN
  IF \E i \in 1..Len(band) : band[i].Effect = EffectDeny THEN FALSE
  ELSE IF \E i \in 1..Len(band) : band[i].Effect = EffectAllow THEN TRUE
  ELSE FirstEffect(sorted, 1)

\* variant: no entry matches, always deny
DefaultDecisionDeny(a) == FALSE

\* no entry matches: the default policy decides
DefaultDecision(a) == a.Default = EffectAllow

\* the decisions evaluateUncached can return for ctx under ACL a
evaluateUncached(a, ctx) ==
  LET m == matchingEntries(a.Entries, ctx) IN
  IF Len(m) = 0 THEN {DefaultDecision(a)}
  ELSE {Decide(s) : s \in SortedByPriority(m)}

(***************************************************************************)
(* permission cache (cache.go): a map from key strings to entries and a    *)
(* container/list of the same entries, most recently used first.  An entry *)
(* and its list element are one cell; cell Root is the list's sentinel.    *)
(***************************************************************************)
Root == 0
Nil == 0 - 1

OperationBits(op) ==
  (IF "Read" \in op THEN 1 ELSE 0) + (IF "Write" \in op THEN 2 ELSE 0)
    + (IF "Execute" \in op THEN 4 ELSE 0) + (IF "Delete" \in op THEN 8 ELSE 0)
    + (IF "Metadata" \in op THEN 16 ELSE 0) + (IF "Admin" \in op THEN 32 ELSE 0)

Digit(d) == <<"0", "1", "2", "3", "4", "5", "6", "7", "8", "9">>[d + 1]

\* %d of a number below 100
Decimal(n) == IF n < 10 THEN <<Digit(n)>> ELSE <<Digit(n \div 10), Digit(n % 10)>>

CacheKey(userID, path, op) == [UserID |-> userID, Path |-> path, Operation |-> op]

\* CacheKey.String: fmt.Sprintf("%s:%s:%d", UserID, Path, Operation)
KeyString(key) ==
  key.UserID \o <<":">> \o key.Path \o <<":">> \o Decimal(OperationBits(key.Operation))

\* NewPermissionCache
NewPermissionCache ==
  [entries |-> [k \in {} |-> Nil],
   next |-> [i \in {Root} |-> Root],
   prev |-> [i \in {Root} |-> Root],
   inList |-> [i \in {} |-> FALSE],
   cell |-> [i \in {} |-> Nil],
   len |-> 0, hits |-> 0, misses |-> 0, evictions |-> 0,
   enabled |-> TRUE, panicked |-> FALSE,
   maxSize |-> CacheMaxSize, ttl |-> CacheTTL]

Cells(c) == DOMAIN c.cell

\* delete(pc.entries, keyStr)
MapDelete(m, k) == [x \in (DOMAIN m) \ {k} |-> m[x]]
MapPut(m, k, v) == [x \in (DOMAIN m) \cup {k} |-> IF x = k THEN v ELSE m[x]]

\* container/list: Init leaves the old elements as they are
ListInit(c) == [c EXCEPT !.next[Root] = Root, !.prev[Root] = Root, !.len = 0]

\* list.remove: unlink e, clear its pointers and its list, len--
ListUnlink(c, e) ==
  LET c1 == [c EXCEPT !.next[c.prev[e]] = c.next[e]]
      c2 == [c1 EXCEPT !.prev[c1.next[e]] = c1.prev[e]]
  IN [c2 EXCEPT !.next[e] = Nil, !.prev[e] = Nil, !.inList[e] = FALSE, !.len = @ - 1]

\* List.Remove: only an element whose list is this list
ListRemove(c, e) == IF c.inList[e] THEN ListUnlink(c, e) ELSE c

\* list.move: unlink e and link it after at; len is not touched
ListMove(c, e, at) ==
  IF e = at THEN c
  ELSE LET c1 == [c EXCEPT !.next[c.prev[e]] = c.next[e]]
           c2 == [c1 EXCEPT !.prev[c1.next[e]] = c1.prev[e]]
           c3 == [c2 EXCEPT !.prev[e] = at]
           c4 == [c3 EXCEPT !.next[e] = c3.next[at]]
           c5 == [c4 EXCEPT !.next[c4.prev[e]] = e]
       IN [c5 EXCEPT !.prev[c5.next[e]] = e]

\* variant: MoveToFront leaves the list as it is
ListMoveToFrontNone(c, e) == c

\* List.MoveToFront
ListMoveToFront(c, e) ==
  IF ~c.inList[e] \/ c.next[Root] = e THEN c ELSE ListMove(c, e, Root)

\* List.PushFront of a new entry: a fresh cell linked after the sentinel
ListPushFront(c, entry) ==
  LET e == Cardinality(Cells(c)) + 1
      ids == DOMAIN c.next \cup {e}
      nxt == [i \in ids |-> IF i = e THEN c.next[Root]
                            ELSE IF i = Root THEN e ELSE c.next[i]]
      prv == [i \in ids |-> IF i = e THEN Root
                            ELSE IF i = c.next[Root] THEN e ELSE c.prev[i]]
  IN [c EXCEPT !.next = nxt, !.prev = prv,
               !.inList = [i \in Cells(c) \cup {e} |-> IF i = e THEN TRUE ELSE c.inList[i]],
               !.cell = [i \in Cells(c) \cup {e} |-> IF i = e THEN entry ELSE c.cell[i]],
               !.len = @ + 1]

\* List.Back
ListBack(c) == IF c.len = 0 THEN Nil ELSE c.prev[Root]

\* evictOldest: the sentinel carries no entry, so asserting its value panics
evictOldest(c) ==
  IF c.len = 0 THEN c
  ELSE LET oldest == ListBack(c) IN
    IF oldest = Nil THEN c
    ELSE IF oldest = Root THEN [c EXCEPT !.panicked = TRUE]
    ELSE LET c1 == [c EXCEPT !.entries = MapDelete(@, KeyString(c.cell[oldest].Key))]
         IN [ListRemove(c1, oldest) EXCEPT !.evictions = @ + 1]

\* PermissionCache.Set under the write lock
CacheSet(c, key, allowed, now, maxSize, ttl) ==
  IF ~c.enabled THEN c
  ELSE LET keyStr == KeyString(key) IN
    IF keyStr \in DOMAIN c.entries THEN
      LET e == c.entries[keyStr]
          c1 == [c EXCEPT !.cell[e].Allowed = allowed, !.cell[e].ExpiresAt = now + ttl]
      IN ListMoveToFront(c1, e)
    ELSE
      LET c1 == IF c.len >= maxSize THEN evictOldest(c) ELSE c
          c2 == ListPushFront(c1, [Key |-> key, Allowed |-> allowed, ExpiresAt |-> now + ttl])
      IN IF c1.panicked THEN c1
         ELSE [c2 EXCEPT !.entries = MapPut(@, keyStr, Cardinality(Cells(c1)) + 1)]

\* variant: Clear leaves the cache as it is
CacheClearKeep(c) == c

\* PermissionCache.Clear: a new map, the list re-initialised
CacheClear(c) == ListInit([c EXCEPT !.entries = [k \in {} |-> Nil]])

\* variant: every path matches
matchesPrefixAlways(path, prefix) == TRUE

\* matchesPrefix
matchesPrefix(path, prefix) ==
  IF Len(prefix) = 0 THEN TRUE
  ELSE IF Len(path) < Len(prefix) THEN FALSE
  ELSE SubSeq(path, 1, Len(prefix)) = prefix

\* the second loop of Invalidate: delete each collected key and remove its element
RECURSIVE RemoveKeys(_, _)
RemoveKeys(c, toRemove) ==
  IF toRemove = {} THEN c
  ELSE LET keyStr == CHOOSE k \in toRemove : TRUE
           c1 == IF keyStr \in DOMAIN c.entries
                   THEN ListRemove([c EXCEPT !.entries = MapDelete(@, keyStr)],
                                   c.entries[keyStr])
                   ELSE c
       IN RemoveKeys(c1, toRemove \ {keyStr})

\* PermissionCache.Invalidate under the write lock
CacheInvalidate(c, userID, pathPrefix) ==
  LET toRemove ==
        {keyStr \in DOMAIN c.entries :
           LET key == c.cell[c.entries[keyStr]].Key IN
             /\ (Len(userID) = 0 \/ key.UserID = userID)
             /\ (Len(pathPrefix) = 0 \/ matchesPrefix(key.Path, pathPrefix))}
  IN RemoveKeys(c, toRemove)

\* variant: the lookup never finds the key
CacheLookupMiss(c, key) == Nil

\* PermissionCache.Get, first critical section (read lock): the map lookup
CacheLookup(c, key) ==
  IF KeyString(key) \in DOMAIN c.entries THEN c.entries[KeyString(key)] ELSE Nil

\* variant: an entry never expires
IsExpiredNever(entry, now) == FALSE

\* CacheEntry.IsExpired
IsExpired(entry, now) == now > entry.ExpiresAt

\* PermissionCache.Get, second critical section (write lock), for the entry e
\* the lookup returned: count a miss, drop an expired entry, or promote a hit
CacheGetFinish(c, key, e, now) ==
  IF e = Nil THEN
    [cache |-> [c EXCEPT !.misses = @ + 1], allowed |-> FALSE, found |-> FALSE]
  ELSE IF IsExpired(c.cell[e], now) THEN
    [cache |-> [ListRemove([c EXCEPT !.entries = MapDelete(@, KeyString(key))], e)
                  EXCEPT !.misses = @ + 1],
     allowed |-> FALSE, found |-> FALSE]
  ELSE
    [cache |-> [ListMoveToFront(c, e) EXCEPT !.hits = @ + 1],
     allowed |-> c.cell[e].Allowed, found |-> TRUE]

\* the entries the list holds, walking next from the sentinel
RECURSIVE ListWalk(_, _, _)
ListWalk(c, e, seen) ==
  IF e = Root \/ e = Nil \/ e \in seen THEN seen
  ELSE ListWalk(c, c.next[e], seen \cup {e})

ListCells(c) == ListWalk(c, c.next[Root], {})

\* CacheStats.Size
StatsSize(c) == c.len

(***************************************************************************)
(* the universe the specifications draw from                               *)
(***************************************************************************)
UserA == <<"a">>
UserB == <<"b">>
GroupM == <<"m">>
RoleR == <<"r">>

PathSecret == <<"/", "s", "/", "k">>          \* /s/k
PathData == <<"/", "d", "/", "f">>            \* /d/f

PatternAll == <<"/", "*", "*">>               \* /**
PatternSecrets == <<"/", "s", "/", "*", "*">> \* /s/**
PatternDataStar == <<"/", "d", "/", "*">>     \* /d/*
PatternDataOne == <<"/", "d", "/", "?">>      \* /d/?

NoMetadata == [k \in {} |-> ""]
MetadataIP == [k \in {"source_ip"} |-> "10.0.0.1"]
OfficeCondition == [Key |-> "source_ip", Values |-> {"10.0.0.1"}]

Alice == [UserID |-> UserA, Groups |-> {GroupM}, Roles |-> {RoleR}]
Bob == [UserID |-> UserB, Groups |-> {}, Roles |-> {}]
Identities == {Alice, Bob}

\* who, where, what and under which conditions a rule speaks about
Templates == {
  [Subject |-> User(UserA), PathPattern |-> PatternSecrets,
   Permissions |-> OperationAll, Conditions |-> <<>>],
  [Subject |-> Group(GroupM), PathPattern |-> PatternDataStar,
   Permissions |-> OperationRead \cup OperationMetadata, Conditions |-> <<>>],
  [Subject |-> Everyone, PathPattern |-> PatternAll,
   Permissions |-> OperationRead, Conditions |-> <<OfficeCondition>>] }

ACLEntry(t, effect, priority) ==
  [Subject |-> t.Subject, PathPattern |-> t.PathPattern, Permissions |-> t.Permissions,
   Effect |-> effect, Priority |-> priority, Conditions |-> t.Conditions]

EntryUniverse ==
  {ACLEntry(t, eff, pr) : t \in Templates, eff \in {EffectAllow, EffectDeny},
                          pr \in 0..MaxPriority}

EntryLists == UNION {[1..n -> EntryUniverse] : n \in 0..MaxEntries}

Contexts ==
  [Identity : Identities, Path : {PathSecret, PathData},
   Operation : {OperationRead, ReadWrite},
   Metadata : {NoMetadata, MetadataIP}]

\* a returned (bool, nil) as the caller sees it
Outcome(allowed) == IF allowed THEN "allow" ELSE "deny"

(***************************************************************************)
(* interceptor (PermFS): what each call asks for                           *)
(***************************************************************************)
\* the request context: the identity key is "set", "unset" or holds a nil pointer
Context(kind, identity, metadata) ==
  [identityKind |-> kind, identity |-> identity, metadata |-> metadata,
   cancelled |-> FALSE]

\* the same context after its cancel function was called
Cancelled(ctx) == [ctx EXCEPT !.cancelled = TRUE]

\* variant: a missing identity becomes an anonymous one
GetIdentityAnonymous(ctx) ==
  [identity |-> [UserID |-> <<>>, Groups |-> {}, Roles |-> {}], err |-> FALSE]

\* GetIdentity: ErrNoIdentity unless the key holds a non-nil identity
GetIdentity(ctx) ==
  IF ctx.identityKind # "set" THEN [identity |-> ctx.identity, err |-> TRUE]
  ELSE [identity |-> ctx.identity, err |-> FALSE]

WriteFlags == {"O_WRONLY", "O_RDWR", "O_APPEND", "O_CREATE", "O_TRUNC"}

\* variant: OpenFile asks for Read whatever the flags
OpenFileRequiredOpRead(flag) == OperationRead

\* PermFS.OpenFile: the one combined operation it asks for
OpenFileRequiredOp(flag) ==
  (IF flag \cap WriteFlags # {} THEN OperationWrite ELSE {})
    \cup (IF "O_WRONLY" \notin flag THEN OperationRead ELSE {})
    \cup (IF "O_CREATE" \in flag THEN OperationWrite ELSE {})

Check(path, op) == [Path |-> path, Operation |-> op]

\* variant: the new path is checked before the old one
RequiredChecksNewFirst(c) ==
  <<Check(c.newpath, OperationWrite), Check(c.path, OperationDelete)>>

\* the checkPermission calls each intercepted method makes, in order
RequiredChecks(c) ==
  CASE c.name = "OpenFile" -> <<Check(c.path, OpenFileRequiredOp(c.flag))>>
    [] c.name \in {"Mkdir", "MkdirAll"} -> <<Check(c.path, OperationWrite)>>
    [] c.name \in {"Remove", "RemoveAll"} -> <<Check(c.path, OperationDelete)>>
    [] c.name = "Rename" ->
         <<Check(c.path, OperationDelete), Check(c.newpath, OperationWrite)>>
    [] c.name \in {"Stat", "Lstat"} -> <<Check(c.path, OperationMetadata)>>
    [] c.name = "ReadDir" -> <<Check(c.path, OperationRead)>>
    [] c.name \in {"Chmod", "Chtimes"} -> <<Check(c.path, OperationMetadata)>>
    [] c.name = "Chown" -> <<Check(c.path, OperationAdmin)>>

\* NewPermissionError
NewPermissionError(path, op, userID, reason) ==
  [kind |-> "PermissionDenied", Path |-> path, Operation |-> op,
   UserID |-> userID, Reason |-> reason]

ErrNoIdentity == [kind |-> "ErrNoIdentity"]
NoError == [kind |-> "nil"]
\* no return at all: a panic unwinds through the intercepted method
Panic == [kind |-> "panic"]
Pending == [kind |-> "pending"]

\* variant: checkPermission never returns an error
CheckErrorNever(allowed, path, op, userID) == NoError

\* the tail of checkPermission: nil when allowed, a PermissionError when not
CheckError(allowed, path, op, userID) ==
  IF ~allowed THEN NewPermissionError(path, op, userID, <<"access denied by ACL">>)
  ELSE NoError

\* variant: every event says allowed
AuditEventAllowed(identity, check, allowed) ==
  [UserID |-> identity.UserID, Operation |-> check.Operation, Path |-> check.Path,
   Result |-> "allowed"]

\* the audit event checkPermission builds
AuditEvent(identity, check, allowed) ==
  [UserID |-> identity.UserID, Operation |-> check.Operation, Path |-> check.Path,
   Result |-> IF allowed THEN "allowed" ELSE "denied"]

(***************************************************************************)
(* state                                                                   *)
(***************************************************************************)
Procs == {"p1", "p2"}

VARIABLES
  acl,       \* Evaluator.acl: [Entries, Default]
  evalCtx,   \* the context handed to Evaluate on the cache-less evaluator
  evalOut,   \* what that call returned ("allow", "deny"); "idle" before the first call
  cache,     \* Evaluator.cache, a PermissionCache
  useCache,  \* PerformanceConfig.CacheEnabled: whether the evaluator has a cache
  now,       \* time.Now(), in ticks
  pc,        \* per caller: where its intercepted call stands
  call,      \* per caller: the call, its context and its checkPermission calls
  loc,       \* per caller: the locals of the running checkPermission
  ret,       \* per caller: what the call returned
  backend,   \* per caller: the backend method this call invoked, "none" if none
  sink,      \* AuditConfig.Writer: the events written, in order
  calls,     \* intercepted calls started so far
  mpc,       \* the maintenance thread: "idle", or "clear" between the write of
             \* the entry list and ClearCache
  mutations, \* AddRule/RemoveRule calls started so far
  cc,        \* per direct user of the cache: [pc, key, cell, out] of its Get
  cacheOps,  \* cache calls started so far by the direct users
  al,        \* the AuditLogger: buffer, stopCh, worker, metrics
  lg,        \* per goroutine inside Log: [pc, event]
  closer,    \* position of the goroutine calling AuditLogger.Close
  accepted,  \* history: events whose Log returned before Close was called
  hist,      \* history: what the claims need to know about the past
  fn         \* the last call of a function that touches no PermFS: [op, in, out]

vars == <<acl, evalCtx, evalOut, cache, useCache, now, pc, call, loc, ret,
          backend, sink, calls, mpc, mutations, cc, cacheOps, al, lg, closer,
          accepted, hist, fn>>

evalVars == <<evalCtx, evalOut>>
callVars == <<pc, call, loc, ret, backend, sink, calls>>
mutVars == <<mpc, mutations>>
directVars == <<cc, cacheOps, al, lg, closer, accepted, fn>>

NoCall ==
  [name |-> "none", path |-> <<>>, newpath |-> <<>>, flag |-> {},
   ctx |-> Context("unset", Bob, NoMetadata), checks |-> <<>>, idx |-> 0]

NoLocals ==
  [cell |-> Nil, allowed |-> FALSE, found |-> FALSE,
   \* history of this call
   version |-> 0,          \* the ACL version the decision was computed against
   startReturned |-> 0,    \* mutations that had returned when the call began
   inWindow |-> FALSE,     \* the lookup ran between an entry-list write and its ClearCache
   mustMiss |-> FALSE,     \* at the lookup: a mutation had returned and the key was not set since
   cacheAccesses |-> 0,    \* cache.Get calls made
   evaluations |-> 0,      \* evaluateUncached calls made
   decisions |-> <<>>,     \* what Evaluate returned to each checkPermission so far
   sinkAtStart |-> 0]      \* events in the sink when the call began

NoHistory ==
  [aclVersion |-> 0,           \* writes of the entry list so far
   returned |-> 0,             \* AddRule/RemoveRule calls that have returned
   cellVersion |-> [i \in {} |-> 0],  \* per cache cell: the ACL version of its decision
   setSince |-> {},            \* keys set since the last mutation returned
   cachedAtClear |-> {},       \* keys the last ClearCache found in the cache
   \* the last RemoveRule: its argument, the entry list it found and the
   \* write of the entry list it made
   lastRemove |-> [entry |-> <<>>, before |-> <<>>, version |-> 0]]

EvalIdle ==
  /\ evalCtx = [Identity |-> Bob, Path |-> PathData, Operation |-> OperationRead,
                Metadata |-> NoMetadata]
  /\ evalOut = "idle"

CallersIdle ==
  /\ pc = [p \in Procs |-> "idle"]
  /\ call = [p \in Procs |-> NoCall]
  /\ loc = [p \in Procs |-> NoLocals]
  /\ ret = [p \in Procs |-> Pending]
  /\ backend = [p \in Procs |-> "none"]
  /\ sink = <<>>
  /\ calls = 0

MaintenanceIdle == mpc = "idle" /\ mutations = 0

CacheNew == cache = NewPermissionCache /\ now = 0

NoGet == [pc |-> "idle", key |-> CacheKey(<<>>, <<>>, {}), cell |-> Nil,
          out |-> [found |-> FALSE, allowed |-> FALSE]]

\* an event: its submission number, the goroutine that handed it to Log,
\* its Result and whether json.Marshal succeeds on it
NoEvent == [id |-> 0, by |-> "none", Result |-> "none", marshals |-> TRUE]

\* NewAuditLogger: an empty buffer, an open stopCh, the worker at its select
NewAuditLogger(level, async) ==
  [level |-> level, async |-> async, buffer |-> <<>>, stopCh |-> "open",
   bufferClosed |-> FALSE,
   worker |-> [pc |-> IF async THEN "select" ELSE "none", event |-> NoEvent,
               draining |-> FALSE],
   total |-> 0, dropped |-> 0, drained |-> 0, panicked |-> FALSE,
   \* history: the events whose Log took the default branch of its select
   fellBack |-> {}]

NoLog == [pc |-> "idle", event |-> NoEvent]

AuditIdle ==
  /\ lg = [p \in Procs |-> NoLog]
  /\ closer = "idle"
  /\ accepted = {}

\* no such call yet
NoFn == [op |-> "none"]

DirectIdle ==
  /\ cc = [p \in Procs |-> NoGet] /\ cacheOps = 0
  /\ fn = NoFn
  /\ al = NewAuditLogger("None", FALSE)
  /\ AuditIdle

(***************************************************************************)
(* SpecEval: NewEvaluator(acl), no cache; Evaluate goes straight to         *)
(* evaluateUncached                                                        *)
(***************************************************************************)
InitEval ==
  /\ acl \in [Entries : EntryLists, Default : {EffectAllow, EffectDeny}]
  /\ evalCtx \in Contexts
  /\ evalOut = "idle"
  /\ useCache = FALSE
  /\ CacheNew /\ CallersIdle /\ MaintenanceIdle /\ DirectIdle
  /\ hist = NoHistory

EvaluateNoCache ==
  /\ evalOut = "idle"
  /\ \E allowed \in evaluateUncached(acl, evalCtx) : evalOut' = Outcome(allowed)
  /\ UNCHANGED <<acl, evalCtx, cache, useCache, now, callVars, mutVars, directVars, hist>>

NextEval == EvaluateNoCache

SpecEval == InitEval /\ [][NextEval]_vars

(***************************************************************************)
(* the intercepted call of caller p, step by step                          *)
(***************************************************************************)
Key(p) ==
  CacheKey(call[p].ctx.identity.UserID, call[p].checks[call[p].idx].Path,
           call[p].checks[call[p].idx].Operation)

EvaluationContext(p) ==
  [Identity |-> call[p].ctx.identity, Path |-> call[p].checks[call[p].idx].Path,
   Operation |-> call[p].checks[call[p].idx].Operation,
   Metadata |-> call[p].ctx.metadata]

\* where Evaluate starts: at the cache when there is one
EvaluateEntry == IF useCache THEN "lookup" ELSE "eval"

\* the method is entered: the checks are laid out and checkPermission asks
\* for the identity; without one it returns ErrNoIdentity at once
Call(p, c) ==
  /\ pc[p] \in {"idle", "done"}
  /\ calls < MaxCalls
  /\ calls' = calls + 1
  /\ call' = [call EXCEPT ![p] = [c EXCEPT !.checks = RequiredChecks(c), !.idx = 1]]
  /\ loc' = [loc EXCEPT ![p] = [NoLocals EXCEPT !.startReturned = hist.returned,
                                                !.sinkAtStart = Len(sink)]]
  /\ backend' = [backend EXCEPT ![p] = "none"]
  /\ IF GetIdentity(c.ctx).err
       THEN /\ ret' = [ret EXCEPT ![p] = ErrNoIdentity]
            /\ pc' = [pc EXCEPT ![p] = "done"]
       ELSE /\ ret' = [ret EXCEPT ![p] = Pending]
            /\ pc' = [pc EXCEPT ![p] = EvaluateEntry]
  /\ UNCHANGED <<acl, evalVars, cache, useCache, now, sink, mutVars, directVars, hist>>

\* Evaluate, cache.Get under the read lock
GetLookup(p) ==
  /\ pc[p] = "lookup"
  /\ loc' = [loc EXCEPT ![p].cell = CacheLookup(cache, Key(p)),
                        ![p].inWindow = (mpc = "clear"),
                        ![p].mustMiss = (hist.returned > 0
                                          /\ KeyString(Key(p)) \notin hist.setSince),
                        ![p].cacheAccesses = @ + 1]
  /\ pc' = [pc EXCEPT ![p] = "finish"]
  /\ UNCHANGED <<acl, evalVars, cache, useCache, now, call, ret, backend, sink,
                 calls, mutVars, directVars, hist>>

\* Evaluate, cache.Get under the write lock: a hit returns the cached decision
GetFinish(p) ==
  /\ pc[p] = "finish"
  /\ LET r == CacheGetFinish(cache, Key(p), loc[p].cell, now) IN
       /\ cache' = r.cache
       /\ loc' = [loc EXCEPT ![p].found = r.found,
                             ![p].allowed = r.allowed,
                             ![p].version = IF r.found THEN hist.cellVersion[loc[p].cell]
                                            ELSE @]
       /\ pc' = [pc EXCEPT ![p] = IF r.found THEN "audit" ELSE "eval"]
  /\ UNCHANGED <<acl, evalVars, useCache, now, call, ret, backend, sink, calls,
                 mutVars, directVars, hist>>

\* Evaluate, evaluateUncached: reads the entry list as it is now.  Nothing
\* between a condition function and the caller recovers, so a panic in one
\* ends the intercepted call there
EvalUncached(p) ==
  /\ pc[p] = "eval"
  /\ IF evaluatePanics(acl, EvaluationContext(p))
       THEN /\ loc' = [loc EXCEPT ![p].evaluations = @ + 1]
            /\ pc' = [pc EXCEPT ![p] = "panicked"]
            /\ ret' = [ret EXCEPT ![p] = Panic]
       ELSE /\ \E allowed \in evaluateUncached(acl, EvaluationContext(p)) :
                 loc' = [loc EXCEPT ![p].allowed = allowed,
                                    ![p].version = hist.aclVersion,
                                    ![p].evaluations = @ + 1]
            /\ pc' = [pc EXCEPT ![p] = IF useCache THEN "set" ELSE "audit"]
            /\ ret' = ret
  /\ UNCHANGED <<acl, evalVars, cache, useCache, now, call, backend, sink,
                 calls, mutVars, directVars, hist>>

\* Evaluate, cache.Set of the decision just computed
SetCache(p) ==
  /\ pc[p] = "set"
  /\ cache' = CacheSet(cache, Key(p), loc[p].allowed, now, CacheMaxSize, CacheTTL)
  /\ hist' = [hist EXCEPT
       !.setSince = @ \cup {KeyString(Key(p))},
       !.cellVersion =
          IF KeyString(Key(p)) \in DOMAIN cache'.entries
            THEN MapPut(@, cache'.entries[KeyString(Key(p))], loc[p].version)
            ELSE @]
  /\ pc' = [pc EXCEPT ![p] = "audit"]
  /\ UNCHANGED <<acl, evalVars, useCache, now, call, loc, ret, backend, sink,
                 calls, mutVars, directVars>>

\* the rest of checkPermission: the audit event is written, then a denial
\* returns a PermissionError; an allowed check lets the method go on to its
\* next check or to the backend
AuditAndReturn(p) ==
  /\ pc[p] = "audit"
  /\ LET chk == call[p].checks[call[p].idx]
         id == call[p].ctx.identity
         err == CheckError(loc[p].allowed, chk.Path, chk.Operation, id.UserID)
     IN /\ sink' = Append(sink, AuditEvent(id, chk, loc[p].allowed))
        /\ IF err # NoError THEN
             /\ ret' = [ret EXCEPT ![p] = err]
             /\ pc' = [pc EXCEPT ![p] = "done"]
             /\ loc' = [loc EXCEPT ![p].decisions = Append(@, loc[p].allowed)]
             /\ call' = call
           ELSE IF call[p].idx < Len(call[p].checks) THEN
             /\ call' = [call EXCEPT ![p].idx = @ + 1]
             /\ pc' = [pc EXCEPT ![p] = EvaluateEntry]
             /\ loc' = [loc EXCEPT ![p].decisions = Append(@, loc[p].allowed),
                                   ![p].cell = Nil, ![p].found = FALSE]
             /\ ret' = ret
           ELSE
             /\ pc' = [pc EXCEPT ![p] = "backend"]
             /\ loc' = [loc EXCEPT ![p].decisions = Append(@, loc[p].allowed)]
             /\ UNCHANGED <<call, ret>>
  /\ UNCHANGED <<acl, evalVars, cache, useCache, now, backend, calls, mutVars, directVars, hist>>

\* pfs.base.<Method>(...): the backend's own result is returned unchanged
Backend(p) ==
  /\ pc[p] = "backend"
  /\ backend' = [backend EXCEPT ![p] = call[p].name]
  /\ \E r \in {NoError, [kind |-> "backend error"]} : ret' = [ret EXCEPT ![p] = r]
  /\ pc' = [pc EXCEPT ![p] = "done"]
  /\ UNCHANGED <<acl, evalVars, cache, useCache, now, call, loc, sink, calls,
                 mutVars, directVars, hist>>

CallSteps(p) ==
  \/ GetLookup(p)
  \/ GetFinish(p)
  \/ EvalUncached(p)
  \/ SetCache(p)
  \/ AuditAndReturn(p)
  \/ Backend(p)

(***************************************************************************)
(* SpecCalls: one caller going through every intercepted method            *)
(***************************************************************************)
CallNames ==
  {"OpenFile", "Mkdir", "MkdirAll", "Remove", "RemoveAll", "Rename", "Stat", "Lstat",
   "ReadDir", "Chmod", "Chown", "Chtimes"}

OpenFlags ==
  {{}, {"O_WRONLY"}, {"O_RDWR"}, {"O_APPEND"}, {"O_CREATE"}, {"O_TRUNC"},
   {"O_WRONLY", "O_CREATE", "O_TRUNC"}}

CallContexts ==
  {Context("set", Alice, NoMetadata), Context("unset", Bob, NoMetadata),
   Context("nil", Bob, NoMetadata)}

AllCalls ==
  {[name |-> n, path |-> pa, newpath |-> np, flag |-> f, ctx |-> cx, checks |-> <<>>,
    idx |-> 0] :
     n \in CallNames \ {"OpenFile", "Rename"}, pa \in {PathSecret, PathData},
     np \in {<<>>}, f \in {{}}, cx \in CallContexts}
  \cup
  {[name |-> "OpenFile", path |-> pa, newpath |-> <<>>, flag |-> f, ctx |-> cx,
    checks |-> <<>>, idx |-> 0] :
     pa \in {PathSecret, PathData}, f \in OpenFlags, cx \in CallContexts}
  \cup
  {[name |-> "Rename", path |-> pa, newpath |-> np, flag |-> {}, ctx |-> cx,
    checks |-> <<>>, idx |-> 0] :
     pa \in {PathSecret, PathData}, np \in {PathSecret, PathData}, cx \in CallContexts}

\* Alice may do anything under /s and read and stat under /d
BaseEntries ==
  <<[Subject |-> User(UserA), PathPattern |-> PatternSecrets,
     Permissions |-> OperationAll, Effect |-> EffectAllow, Priority |-> 0,
     Conditions |-> <<>>],
    [Subject |-> Group(GroupM), PathPattern |-> PatternDataStar,
     Permissions |-> OperationRead \cup OperationMetadata, Effect |-> EffectAllow,
     Priority |-> 0, Conditions |-> <<>>]>>

InitCalls ==
  /\ acl \in [Entries : {BaseEntries}, Default : {EffectAllow, EffectDeny}]
  /\ useCache \in BOOLEAN
  /\ EvalIdle /\ CacheNew /\ CallersIdle /\ MaintenanceIdle /\ DirectIdle
  /\ hist = NoHistory

NextCalls ==
  \/ \E c \in AllCalls : Call("p1", c)
  \/ CallSteps("p1")

SpecCalls == InitCalls /\ [][NextCalls]_vars

(***************************************************************************)
(* policy maintenance (PermFS.AddRule, PermFS.RemoveRule): the entry list  *)
(* is written first, the cache is cleared afterwards, and no lock spans    *)
(* the two                                                                 *)
(***************************************************************************)
\* the entries RemoveRule keeps: those that differ from entry in subject,
\* pattern, permissions or effect
RECURSIVE RemoveRuleKeep(_, _)
RemoveRuleKeep(entries, entry) ==
  IF Len(entries) = 0 THEN <<>>
  ELSE LET e == Head(entries) IN
    IF e.Subject # entry.Subject \/ e.PathPattern # entry.PathPattern
         \/ e.Permissions # entry.Permissions \/ e.Effect # entry.Effect
      THEN <<e>> \o RemoveRuleKeep(Tail(entries), entry)
      ELSE RemoveRuleKeep(Tail(entries), entry)

\* AddRule up to its ClearCache call
AddRuleWrite(entry) ==
  /\ mpc = "idle"
  /\ mutations < MaxMutations
  /\ mutations' = mutations + 1
  /\ acl' = [acl EXCEPT !.Entries = Append(@, entry)]
  /\ mpc' = "clear"
  /\ hist' = [hist EXCEPT !.aclVersion = @ + 1]
  /\ UNCHANGED <<evalVars, cache, useCache, now, callVars, directVars>>

\* RemoveRule up to its ClearCache call
RemoveRuleWrite(entry) ==
  /\ mpc = "idle"
  /\ mutations < MaxMutations
  /\ mutations' = mutations + 1
  /\ acl' = [acl EXCEPT !.Entries = RemoveRuleKeep(@, entry)]
  /\ mpc' = "clear"
  /\ hist' = [hist EXCEPT !.aclVersion = @ + 1,
                          !.lastRemove = [entry |-> entry, before |-> acl.Entries,
                                          version |-> hist.aclVersion + 1]]
  /\ UNCHANGED <<evalVars, cache, useCache, now, callVars, directVars>>

\* Evaluator.ClearCache: nothing to clear without a cache
EvaluatorClearCache(c, hasCache) == IF hasCache THEN CacheClear(c) ELSE c

\* pfs.ClearCache() and the return of AddRule or RemoveRule
ClearCacheAndReturn ==
  /\ mpc = "clear"
  /\ cache' = EvaluatorClearCache(cache, useCache)
  /\ mpc' = "idle"
  /\ hist' = [hist EXCEPT !.returned = @ + 1, !.setSince = {},
                          !.cachedAtClear = DOMAIN cache.entries]
  /\ UNCHANGED <<acl, evalVars, useCache, now, callVars, mutations, directVars>>

(***************************************************************************)
(* Spec: two callers and the maintenance thread on one PermFS with a cache *)
(***************************************************************************)
DenySecrets ==
  [Subject |-> User(UserA), PathPattern |-> PatternSecrets,
   Permissions |-> OperationAll, Effect |-> EffectDeny, Priority |-> 1,
   Conditions |-> <<>>]

ConcurrentCalls ==
  {[name |-> "ReadDir", path |-> pa, newpath |-> <<>>, flag |-> {},
    ctx |-> Context("set", Alice, NoMetadata), checks |-> <<>>, idx |-> 0] :
     pa \in {PathSecret, PathData}}

\* the first caller lists the secrets directory, the second either directory
CallsOf(p) ==
  IF p = "p1" THEN {c \in ConcurrentCalls : c.path = PathSecret} ELSE ConcurrentCalls

Init ==
  /\ acl = [Entries |-> BaseEntries, Default |-> EffectDeny]
  /\ useCache = TRUE
  /\ EvalIdle /\ CacheNew /\ CallersIdle /\ MaintenanceIdle /\ DirectIdle
  /\ hist = NoHistory

Next ==
  \/ \E p \in Procs : \E c \in CallsOf(p) : Call(p, c)
  \/ \E p \in Procs : CallSteps(p)
  \/ AddRuleWrite(DenySecrets)
  \/ RemoveRuleWrite(BaseEntries[1])
  \/ ClearCacheAndReturn

Spec == Init /\ [][Next]_vars

(***************************************************************************)
(* SpecCache: two goroutines calling Get, Set, Clear and Invalidate on one *)
(* PermissionCache while the clock runs.  Set, Clear and Invalidate hold   *)
(* the write lock throughout; Get takes the read lock for the lookup,      *)
(* releases it, and takes the write lock for what follows.                 *)
(***************************************************************************)
CacheKeys ==
  {CacheKey(UserA, PathSecret, OperationRead), CacheKey(UserA, PathData, OperationRead),
   CacheKey(UserB, PathSecret, OperationRead)}

PrefixSecrets == <<"/", "s">>

otherVars ==
  <<acl, evalVars, useCache, callVars, mutVars, al, lg, closer, accepted, hist, fn>>

\* Get up to the release of the read lock
CacheGetLookup(p, key) ==
  /\ cc[p].pc = "idle"
  /\ ~cache.panicked
  /\ cacheOps < MaxCacheOps
  /\ cacheOps' = cacheOps + 1
  /\ cc' = [cc EXCEPT ![p] = [pc |-> "got", key |-> key,
                              cell |-> CacheLookup(cache, key),
                              out |-> [found |-> FALSE, allowed |-> FALSE]]]
  /\ UNCHANGED <<cache, now, otherVars>>

\* the rest of Get, under the write lock
CacheGetReturn(p) ==
  /\ cc[p].pc = "got"
  /\ ~cache.panicked
  /\ LET r == CacheGetFinish(cache, cc[p].key, cc[p].cell, now) IN
       /\ cache' = r.cache
       /\ cc' = [cc EXCEPT ![p].pc = "idle",
                           ![p].out = [found |-> r.found, allowed |-> r.allowed]]
  /\ UNCHANGED <<now, cacheOps, otherVars>>

CacheSetCall(key, allowed) ==
  /\ ~cache.panicked
  /\ cacheOps < MaxCacheOps
  /\ cacheOps' = cacheOps + 1
  /\ cache' = CacheSet(cache, key, allowed, now, CacheMaxSize, CacheTTL)
  /\ UNCHANGED <<now, cc, otherVars>>

CacheClearCall ==
  /\ ~cache.panicked
  /\ cacheOps < MaxCacheOps
  /\ cacheOps' = cacheOps + 1
  /\ cache' = CacheClear(cache)
  /\ UNCHANGED <<now, cc, otherVars>>

CacheInvalidateCall(userID, pathPrefix) ==
  /\ ~cache.panicked
  /\ cacheOps < MaxCacheOps
  /\ cacheOps' = cacheOps + 1
  /\ cache' = CacheInvalidate(cache, userID, pathPrefix)
  /\ UNCHANGED <<now, cc, otherVars>>

Tick ==
  /\ now < MaxTime
  /\ now' = now + 1
  /\ UNCHANGED <<cache, cc, cacheOps, otherVars>>

InitCache ==
  /\ acl = [Entries |-> <<>>, Default |-> EffectDeny]
  /\ useCache = TRUE
  /\ EvalIdle /\ CacheNew /\ CallersIdle /\ MaintenanceIdle /\ DirectIdle
  /\ hist = NoHistory

NextCache ==
  \/ \E p \in Procs : \E k \in CacheKeys : CacheGetLookup(p, k)
  \/ \E p \in Procs : CacheGetReturn(p)
  \/ \E k \in CacheKeys : \E allowed \in BOOLEAN : CacheSetCall(k, allowed)
  \/ CacheClearCall
  \/ \E u \in {<<>>, UserA} : \E pre \in {<<>>, PrefixSecrets} : CacheInvalidateCall(u, pre)
  \/ Tick

SpecCache == InitCache /\ [][NextCache]_vars

(***************************************************************************)
(* SpecCacheSeq: one goroutine calling Get, Set, Clear and Invalidate on a *)
(* PermissionCache built with any max size up to CacheMaxSize, while the   *)
(* clock runs.  hist carries what the calls so far should have left: the   *)
(* value and time of the latest Set of each key still cached (live), the   *)
(* keys from most to least recently used (uses), and the last call with    *)
(* its arguments and result (last).                                        *)
(***************************************************************************)
NoKey == CacheKey(<<>>, <<>>, {})

\* the keys a lookup can retrieve
KeysIn(c) == {k \in CacheKeys : KeyString(k) \in DOMAIN c.entries}

\* the keys of the LRU list from front to back; n bounds the walk
RECURSIVE ListKeysFrom(_, _, _)
ListKeysFrom(c, e, n) ==
  IF e = Root \/ e = Nil \/ n = 0 THEN <<>>
  ELSE <<c.cell[e].Key>> \o ListKeysFrom(c, c.next[e], n - 1)

ListKeys(c) == ListKeysFrom(c, c.next[Root], Cardinality(Cells(c)))

\* what the filters of an invalidation select: the user, when given, equals
\* the key's user, and the key's path starts with the prefix, when given
Selected(k, userID, pathPrefix) ==
  /\ userID = <<>> \/ k.UserID = userID
  /\ pathPrefix = <<>> \/
       (Len(k.Path) >= Len(pathPrefix)
        /\ \A i \in 1..Len(pathPrefix) : k.Path[i] = pathPrefix[i])

Without(s, k) == SelectSeq(s, LAMBDA x : x # k)

Promote(s, k) == <<k>> \o Without(s, k)

\* the record of a call, before its own fields are filled in
Op(name) ==
  [name |-> name, key |-> NoKey, userID |-> <<>>, pathPrefix |-> <<>>,
   out |-> [found |-> FALSE, allowed |-> FALSE],
   removed |-> {}]      \* the keys the call took out of the cache

\* the key was set and not removed since
Known(key) == key \in DOMAIN hist.live

\* more than the TTL has passed since the latest Set of the key
Elapsed(key) == Known(key) /\ now > hist.live[key].setAt + cache.ttl

\* the list elements from front to back; n bounds the walk
RECURSIVE ListElementsFrom(_, _, _)
ListElementsFrom(c, e, n) ==
  IF e = Root \/ e = Nil \/ n = 0 THEN <<>>
  ELSE <<e>> \o ListElementsFrom(c, c.next[e], n - 1)

\* between two calls of the single goroutine nothing refers to an element
\* that left the list: such elements are garbage, and the elements in use
\* are numbered here by their place in the list
Collect(c) ==
  LET order == ListElementsFrom(c, c.next[Root], Cardinality(Cells(c)))
      n == Len(order)
      place(e) == CHOOSE i \in 1..n : order[i] = e
  IN [c EXCEPT
        !.entries = [k \in DOMAIN c.entries |-> place(c.entries[k])],
        !.cell = [i \in 1..n |-> c.cell[order[i]]],
        !.inList = [i \in 1..n |-> TRUE],
        !.next = [i \in 0..n |-> IF i = n THEN Root ELSE i + 1],
        !.prev = [i \in 0..n |-> IF i = 0 THEN n ELSE i - 1]]

seqFrame ==
  <<acl, evalVars, useCache, callVars, mutVars, cc, al, lg, closer, accepted, fn>>

\* PermissionCache.Get by a single goroutine
Get(key) ==
  /\ ~cache.panicked
  /\ cacheOps < MaxCacheOps
  /\ cacheOps' = cacheOps + 1
  /\ LET r == CacheGetFinish(cache, key, CacheLookup(cache, key), now)
         known == Known(key)
         elapsed == Elapsed(key)
     IN /\ cache' = Collect(r.cache)
        /\ hist' = [live |-> IF elapsed
                               THEN [k \in DOMAIN hist.live \ {key} |-> hist.live[k]]
                               ELSE hist.live,
                    uses |-> IF known /\ ~elapsed THEN Promote(hist.uses, key)
                             ELSE Without(hist.uses, key),
                    last |-> [Op("Get") EXCEPT
                                !.key = key,
                                !.out = [found |-> r.found, allowed |-> r.allowed],
                                !.removed = KeysIn(cache) \ KeysIn(r.cache)]]
  /\ UNCHANGED <<now, seqFrame>>

\* PermissionCache.Set
Set(key, allowed) ==
  /\ ~cache.panicked
  /\ cacheOps < MaxCacheOps
  /\ cacheOps' = cacheOps + 1
  /\ cache' = Collect(CacheSet(cache, key, allowed, now, cache.maxSize, cache.ttl))
  /\ hist' = [live |-> [k \in ((DOMAIN hist.live \cap KeysIn(cache')) \cup {key}) |->
                          IF k = key THEN [v |-> allowed, setAt |-> now]
                          ELSE hist.live[k]],
              uses |-> IF key \in Range(hist.uses) THEN Promote(hist.uses, key)
                       ELSE IF Len(hist.uses) >= cache.maxSize /\ hist.uses # <<>>
                         THEN <<key>> \o SubSeq(hist.uses, 1, Len(hist.uses) - 1)
                         ELSE <<key>> \o hist.uses,
              last |-> [Op("Set") EXCEPT !.key = key,
                                         !.removed = KeysIn(cache) \ KeysIn(cache')]]
  /\ UNCHANGED <<now, seqFrame>>

\* PermissionCache.Clear
Clear ==
  /\ ~cache.panicked
  /\ cacheOps < MaxCacheOps
  /\ cacheOps' = cacheOps + 1
  /\ cache' = Collect(CacheClear(cache))
  /\ hist' = [live |-> [k \in {} |-> FALSE], uses |-> <<>>, last |-> [Op("Clear") EXCEPT !.removed = KeysIn(cache)]]
  /\ UNCHANGED <<now, seqFrame>>

\* PermissionCache.Invalidate
Invalidate(userID, pathPrefix) ==
  /\ ~cache.panicked
  /\ cacheOps < MaxCacheOps
  /\ cacheOps' = cacheOps + 1
  /\ cache' = Collect(CacheInvalidate(cache, userID, pathPrefix))
  /\ hist' = [live |-> [k \in {x \in DOMAIN hist.live : ~Selected(x, userID, pathPrefix)}
                          |-> hist.live[k]],
              uses |-> SelectSeq(hist.uses, LAMBDA x : ~Selected(x, userID, pathPrefix)),
              last |-> [Op("Invalidate") EXCEPT
                          !.userID = userID, !.pathPrefix = pathPrefix,
                          !.removed = KeysIn(cache) \ KeysIn(cache')]]
  /\ UNCHANGED <<now, seqFrame>>

\* time passes
TickSeq ==
  /\ now < MaxTime
  /\ now' = now + 1
  /\ UNCHANGED <<cache, cacheOps, hist, seqFrame>>

InitCacheSeq ==
  /\ acl = [Entries |-> <<>>, Default |-> EffectDeny]
  /\ useCache = TRUE
  /\ EvalIdle /\ CallersIdle /\ MaintenanceIdle
  /\ cc = [p \in Procs |-> NoGet] /\ cacheOps = 0
  /\ al = NewAuditLogger("None", FALSE) /\ AuditIdle
  /\ fn = NoFn
  /\ now = 0
  /\ \E maxSize \in 0..CacheMaxSize :
       cache = [NewPermissionCache EXCEPT !.maxSize = maxSize]
  /\ hist = [live |-> [k \in {} |-> FALSE], uses |-> <<>>,
             last |-> Op("none")]

NextCacheSeq ==
  \/ \E k \in CacheKeys : Get(k)
  \/ \E k \in CacheKeys : \E allowed \in BOOLEAN : Set(k, allowed)
  \/ Clear
  \/ \E u \in {<<>>, UserA} : \E pre \in {<<>>, PrefixSecrets} : Invalidate(u, pre)
  \/ TickSeq

SpecCacheSeq == InitCacheSeq /\ [][NextCacheSeq]_vars

(***************************************************************************)
(* SpecAudit: goroutines calling Log on one AuditLogger, its worker        *)
(* (processEvents) and one goroutine calling Close.  An event is a record  *)
(* [id, Result, marshals]; marshals says whether json.Marshal succeeds on  *)
(* it (a metadata value such as a channel or NaN makes it fail).           *)
(***************************************************************************)
AuditLevels == {"Denied", "All"}
AuditResults == {"Allowed", "Denied"}

nonAuditVars == <<acl, evalVars, cache, useCache, now, pc, call, loc, ret,
                  backend, calls, mutVars, cc, cacheOps, hist, fn>>

\* variant: writeEvent writes nothing
writeEventNever(s, event) == s

\* writeEvent: a line per event, nothing when json.Marshal fails
writeEvent(s, event) == IF event.marshals THEN Append(s, event) ELSE s

\* the level filter at the head of Log
Filtered(level, event) ==
  level = "None" \/ (level = "Denied" /\ event.Result # "Denied")

\* variant: the worker returns on stopCh without draining
DrainDoneAlways(buffer) == TRUE

\* the inner select of processEvents returns when the buffer has nothing
DrainDone(buffer) == buffer = <<>>

\* Log up to the select: filter, metrics, then enqueue, or write at once
\* in synchronous mode, or fall to the default branch when the buffer is full
Log(p, event) ==
  /\ lg[p].pc = "idle"
  /\ ~al.panicked
  /\ al.total < MaxEvents
  /\ IF Filtered(al.level, event)
       THEN UNCHANGED <<al, lg, sink, accepted>>
       ELSE IF ~al.async
         THEN /\ al' = [al EXCEPT !.total = @ + 1]
              /\ sink' = writeEvent(sink, event)
              /\ accepted' = IF closer = "idle" THEN accepted \cup {event} ELSE accepted
              /\ UNCHANGED lg
         ELSE IF al.bufferClosed
           THEN /\ al' = [al EXCEPT !.total = @ + 1, !.panicked = TRUE]
                /\ UNCHANGED <<lg, sink, accepted>>
           ELSE IF Len(al.buffer) < BufferSize
             THEN /\ al' = [al EXCEPT !.total = @ + 1, !.buffer = Append(@, event)]
                  /\ accepted' = IF closer = "idle" THEN accepted \cup {event}
                                 ELSE accepted
                  /\ UNCHANGED <<lg, sink>>
             ELSE /\ al' = [al EXCEPT !.total = @ + 1]
                  /\ lg' = [lg EXCEPT ![p] = [pc |-> "fallback", event |-> event]]
                  /\ UNCHANGED <<sink, accepted>>
  /\ UNCHANGED <<closer, nonAuditVars>>

\* the default branch of Log's select: writeEvent, then IncrementDropped
LogFallback(p) ==
  /\ lg[p].pc = "fallback"
  /\ sink' = writeEvent(sink, lg[p].event)
  /\ al' = [al EXCEPT !.dropped = @ + 1, !.fellBack = @ \cup {lg[p].event}]
  /\ accepted' = IF closer = "idle" THEN accepted \cup {lg[p].event} ELSE accepted
  /\ lg' = [lg EXCEPT ![p] = NoLog]
  /\ UNCHANGED <<closer, nonAuditVars>>

\* processEvents: event := <-al.buffer, in the outer or the inner select
WorkerReceive ==
  /\ al.worker.pc = "select"
  /\ al.buffer # <<>>
  /\ al' = [al EXCEPT !.buffer = Tail(@),
                      !.worker.pc = "write", !.worker.event = Head(al.buffer)]
  /\ UNCHANGED <<sink, lg, closer, accepted, nonAuditVars>>

\* processEvents: al.writeEvent(event)
WorkerWrite ==
  /\ al.worker.pc = "write"
  /\ sink' = writeEvent(sink, al.worker.event)
  /\ al' = [al EXCEPT !.worker.pc = "select", !.worker.event = NoEvent,
                      !.drained = IF al.worker.draining THEN @ + 1 ELSE @]
  /\ UNCHANGED <<lg, closer, accepted, nonAuditVars>>

\* processEvents: case <-al.stopCh
WorkerStop ==
  /\ al.worker.pc = "select"
  /\ ~al.worker.draining
  /\ al.stopCh = "closed"
  /\ al' = [al EXCEPT !.worker.draining = TRUE]
  /\ UNCHANGED <<sink, lg, closer, accepted, nonAuditVars>>

\* processEvents: the default branch of the inner select, and wg.Done
WorkerReturn ==
  /\ al.worker.pc = "select"
  /\ al.worker.draining
  /\ DrainDone(al.buffer)
  /\ al' = [al EXCEPT !.worker.pc = "done"]
  /\ UNCHANGED <<sink, lg, closer, accepted, nonAuditVars>>

\* Close up to wg.Wait: close(al.stopCh); a synchronous logger returns at once
CloseSignal ==
  /\ closer = "idle"
  /\ IF al.async
       THEN al' = [al EXCEPT !.stopCh = "closed"] /\ closer' = "wait"
       ELSE UNCHANGED al /\ closer' = "returned"
  /\ UNCHANGED <<sink, lg, accepted, nonAuditVars>>

\* Close after wg.Wait: close(al.buffer) and return
CloseReturn ==
  /\ closer = "wait"
  /\ al.worker.pc = "done"
  /\ al' = [al EXCEPT !.bufferClosed = TRUE]
  /\ closer' = "returned"
  /\ UNCHANGED <<sink, lg, accepted, nonAuditVars>>

\* a second Close on the logger, after the first returned: close(al.stopCh)
\* on the closed channel panics; a synchronous logger has nothing to close
CloseAgain ==
  /\ closer = "returned"
  /\ IF al.async
       THEN al' = [al EXCEPT !.panicked = TRUE] /\ closer' = "panicked"
       ELSE UNCHANGED al /\ closer' = "closedAgain"
  /\ UNCHANGED <<sink, lg, accepted, nonAuditVars>>

InitAudit ==
  /\ acl = [Entries |-> <<>>, Default |-> EffectDeny]
  /\ useCache = FALSE
  /\ EvalIdle /\ CacheNew /\ CallersIdle /\ MaintenanceIdle
  /\ cc = [p \in Procs |-> NoGet] /\ cacheOps = 0
  /\ \E level \in AuditLevels : \E async \in BOOLEAN : al = NewAuditLogger(level, async)
  /\ AuditIdle
  /\ fn = NoFn
  /\ hist = NoHistory

NextAudit ==
  \/ \E p \in Procs : \E r \in AuditResults : \E m \in BOOLEAN :
       Log(p, [id |-> al.total + 1, by |-> p, Result |-> r, marshals |-> m])
  \/ \E p \in Procs : LogFallback(p)
  \/ WorkerReceive
  \/ WorkerWrite
  \/ WorkerStop
  \/ WorkerReturn
  \/ CloseSignal
  \/ CloseReturn
  \/ CloseAgain

SpecAudit == InitAudit /\ [][NextAudit]_vars

(***************************************************************************)
(* claims about the evaluator                                              *)
(***************************************************************************)
\* the entries that match the context and apply to the requested operation
MatchSet(a, ctx) ==
  {i \in 1..Len(a.Entries) :
     Matches(a.Entries[i], ctx) /\ Applies(a.Entries[i], ctx.Operation)}

MaxMatchingPriority(a, ctx) ==
  CHOOSE p \in {a.Entries[i].Priority : i \in MatchSet(a, ctx)} :
    \A i \in MatchSet(a, ctx) : a.Entries[i].Priority <= p

\* C1: when a matching, applying entry of the highest matching priority is a
\* Deny, the evaluation returns deny, whatever Allow entries share that priority
C1_DenyDominatesAtTopPriority ==
  (evalOut # "idle" /\ MatchSet(acl, evalCtx) # {}) =>
    ((\E i \in MatchSet(acl, evalCtx) :
        /\ acl.Entries[i].Effect = EffectDeny
        /\ acl.Entries[i].Priority = MaxMatchingPriority(acl, evalCtx))
     => evalOut = "deny")

\* a Deny and an Allow of the same, highest priority both match: denied
C1_Witness ==
  /\ evalOut = "deny"
  /\ \E i, j \in MatchSet(acl, evalCtx) :
       /\ acl.Entries[i].Effect = EffectDeny
       /\ acl.Entries[j].Effect = EffectAllow
       /\ acl.Entries[i].Priority = acl.Entries[j].Priority
       /\ acl.Entries[i].Priority = MaxMatchingPriority(acl, evalCtx)

\* C2: a matching Allow of priority P with no matching Deny of priority >= P
\* gives allow; a Deny of lower priority does not override it
C2_AllowUnlessDenyAtOrAbove ==
  evalOut # "idle" =>
    ((\E i \in MatchSet(acl, evalCtx) :
        /\ acl.Entries[i].Effect = EffectAllow
        /\ \A j \in MatchSet(acl, evalCtx) :
             acl.Entries[j].Effect = EffectDeny =>
               acl.Entries[j].Priority < acl.Entries[i].Priority)
     => evalOut = "allow")

\* an Allow above a matching Deny of lower priority: allowed
C2_Witness ==
  /\ evalOut = "allow"
  /\ \E i, j \in MatchSet(acl, evalCtx) :
       /\ acl.Entries[i].Effect = EffectAllow
       /\ acl.Entries[j].Effect = EffectDeny
       /\ acl.Entries[j].Priority < acl.Entries[i].Priority

\* C3: with no matching, applying entry the decision is allow exactly when the
\* default effect is Allow; an empty ACL with default Deny denies everything
C3_DefaultDecides ==
  (evalOut # "idle" /\ MatchSet(acl, evalCtx) = {}) =>
    (evalOut = "allow" <=> acl.Default = EffectAllow)

\* entries exist, none matches, the default is Allow: allowed
C3_Witness ==
  /\ evalOut = "allow"
  /\ Len(acl.Entries) > 0
  /\ MatchSet(acl, evalCtx) = {}
  /\ acl.Default = EffectAllow

\* every arrangement of a list
SeqPermutations(s) ==
  LET n == Len(s)
      perms == {f \in [1..n -> 1..n] : \A i, j \in 1..n : i # j => f[i] # f[j]}
  IN {[i \in 1..n |-> s[f[i]]] : f \in perms}

\* C39: the decision of an uncached evaluation is the same under every
\* permutation of the entry list, entries of equal priority included.
C39_DecisionInvariantUnderPermutation ==
  evalOut # "idle" =>
    \A entries \in SeqPermutations(acl.Entries) :
      \A allowed \in evaluateUncached([acl EXCEPT !.Entries = entries], evalCtx) :
        Outcome(allowed) = evalOut

\* an Allow and a Deny of equal priority both match, the Allow first, and the
\* request was denied
C39_Witness ==
  /\ evalOut = "deny"
  /\ Len(acl.Entries) = 2
  /\ acl.Entries[1].Effect = EffectAllow /\ acl.Entries[2].Effect = EffectDeny
  /\ acl.Entries[1].Priority = acl.Entries[2].Priority
  /\ Len(matchingEntries(acl.Entries, evalCtx)) = 2

(***************************************************************************)
(* claims about the interceptor                                            *)
(***************************************************************************)
\* C4: the backend is invoked only after every permission check of the call
\* has allowed; a denied check returns a PermissionDenied error carrying the
\* path, the operation, the user id and the reason, and the backend is never
\* invoked
C4_BackendOnlyAfterAllow ==
  \A p \in Procs :
    LET d == loc[p].decisions IN
    /\ backend[p] # "none" =>
         /\ backend[p] = call[p].name
         /\ Len(d) = Len(call[p].checks)
         /\ \A i \in 1..Len(d) : d[i]
    /\ (pc[p] = "done" /\ Len(d) > 0 /\ ~d[Len(d)]) =>
         /\ ret[p] = [kind |-> "PermissionDenied",
                      Path |-> call[p].checks[Len(d)].Path,
                      Operation |-> call[p].checks[Len(d)].Operation,
                      UserID |-> call[p].ctx.identity.UserID,
                      Reason |-> <<"access denied by ACL">>]
         /\ backend[p] = "none"

\* a Rename whose second check is denied: no backend call, the error names
\* the new path
C4_Witness ==
  /\ pc["p1"] = "done"
  /\ call["p1"].name = "Rename"
  /\ loc["p1"].decisions = <<TRUE, FALSE>>
  /\ ret["p1"].kind = "PermissionDenied"
  /\ backend["p1"] = "none"

\* C5: a call whose context carries no identity returns ErrNoIdentity before
\* any evaluation or cache access, writes no audit event and does not reach
\* the backend, whatever the ACL default is
C5_NoIdentityShortCircuits ==
  \A p \in Procs :
    (pc[p] # "idle" /\ call[p].ctx.identityKind # "set") =>
      /\ pc[p] = "done"
      /\ ret[p] = ErrNoIdentity
      /\ loc[p].cacheAccesses = 0
      /\ loc[p].evaluations = 0
      /\ loc[p].decisions = <<>>
      /\ Len(sink) = loc[p].sinkAtStart
      /\ backend[p] = "none"

\* with default Allow and a cache, after an audited call, a call without
\* identity has returned ErrNoIdentity
C5_Witness ==
  /\ pc["p1"] = "done"
  /\ call["p1"].ctx.identityKind = "unset"
  /\ ret["p1"] = ErrNoIdentity
  /\ acl.Default = EffectAllow
  /\ useCache
  /\ Len(sink) > 0

(***************************************************************************)
(* claims about policy mutation and the cache                              *)
(***************************************************************************)
\* C6: once AddRule or RemoveRule has returned, a cache get misses for every
\* key that has not been set again since, so the check goes on to evaluate
\* against the entry list as it is now
C6_MissAfterMutation ==
  /\ hist.returned > 0 => (DOMAIN cache.entries) \subseteq hist.setSince
  /\ \A p \in Procs : (pc[p] = "finish" /\ loc[p].mustMiss) => loc[p].cell = Nil
  /\ \A p \in Procs : loc[p].mustMiss => ~loc[p].found

\* a key cached before the mutation is looked up after it returned, misses
\* and is re-evaluated against the changed entry list
C6_Witness ==
  \E p \in Procs :
    /\ pc[p] = "set"
    /\ loc[p].mustMiss
    /\ loc[p].startReturned > 0
    /\ KeyString(Key(p)) \in hist.cachedAtClear
    /\ loc[p].version = hist.aclVersion

\* C7: a check that begins after a mutation has returned is never served a
\* cached decision that was computed against the entry list of before that
\* mutation
C7_NoStaleDecisionAfterMutation ==
  \A p \in Procs :
    (pc[p] # "idle" /\ loc[p].found) => loc[p].version >= loc[p].startReturned

\* C8: the write of the entry list and the cache invalidation are one atomic
\* step for the checks: none is served a cached decision by a lookup made
\* after the list was written and before the cache was cleared
C8_MutationAtomicWithInvalidation ==
  \A p \in Procs : (pc[p] # "idle" /\ loc[p].found) => ~loc[p].inWindow

(***************************************************************************)
(* claims about the cache                                                  *)
(***************************************************************************)
\* C9: under any interleaving of Get, Set, Clear and Invalidate the key map
\* and the LRU list hold the same entries, and the reported size is the
\* number of retrievable entries and lies between 0 and max_size
C9_CacheConsistent ==
  /\ ListCells(cache) = {cache.entries[k] : k \in DOMAIN cache.entries}
  /\ StatsSize(cache) = Cardinality(DOMAIN cache.entries)
  /\ StatsSize(cache) >= 0
  /\ StatsSize(cache) <= CacheMaxSize

C11_SinkInSubmissionOrder ==
  al.async =>
    \A i, j \in DOMAIN sink :
      (i < j /\ sink[i].by = sink[j].by) => sink[i].id < sink[j].id

\* C12: a second Close on the same logger returns normally, without panic,
\* whether the logger is synchronous or asynchronous
C12_CloseIdempotent == closer # "panicked"

C14_GetAfterSetHits ==
  [][\A k \in CacheKeys :
       (Get(k) /\ Known(k) /\ ~Elapsed(k)) =>
         hist'.last.out = [found |-> TRUE, allowed |-> hist.live[k].v]]_vars

\* a Get hits with the value TRUE after time has passed, with two entries
\* in the cache
C14_Witness ==
  /\ hist.last.name = "Get"
  /\ hist.last.out = [found |-> TRUE, allowed |-> TRUE]
  /\ StatsSize(cache) = 2
  /\ now >= 1

\* the cached entry of a key
EntryOf(c, k) == c.cell[c.entries[KeyString(k)]]

C16_SizeNeverExceedsMax ==
  /\ Cardinality(DOMAIN cache.entries) <= cache.maxSize
  /\ StatsSize(cache) <= cache.maxSize

\* C17: a Get of an entry whose TTL has elapsed is a miss, takes the entry
\* and nothing else out of the cache, and adds one to the miss counter
C17_ExpiredNeverHit ==
  [][\A k \in CacheKeys :
       (Get(k) /\ Elapsed(k)) =>
         /\ ~hist'.last.out.found
         /\ k \in KeysIn(cache)
         /\ KeysIn(cache') = KeysIn(cache) \ {k}
         /\ StatsSize(cache') = StatsSize(cache) - 1
         /\ cache'.misses = cache.misses + 1
         /\ cache'.hits = cache.hits]_vars

\* a key that was a hit is looked up again after its TTL and is a miss that
\* removes it
C17_Witness ==
  /\ hist.last.name = "Get"
  /\ ~hist.last.out.found
  /\ hist.last.removed = {hist.last.key}
  /\ cache.hits = 1 /\ cache.misses = 1
  /\ now > CacheTTL

\* C18: Invalidate takes out exactly the entries whose user equals user_id
\* and whose path starts with path_prefix, an empty filter selecting
\* everything; the other entries stay cached as they were and in their order,
\* and a second Invalidate with the same filters changes nothing
C18_InvalidateExact ==
  [][\A u \in {<<>>, UserA} : \A pre \in {<<>>, PrefixSecrets} :
       Invalidate(u, pre) =>
         /\ KeysIn(cache') = {k \in KeysIn(cache) : ~Selected(k, u, pre)}
         /\ \A k \in KeysIn(cache') : EntryOf(cache', k) = EntryOf(cache, k)
         /\ ListKeys(cache') =
              SelectSeq(ListKeys(cache), LAMBDA k : ~Selected(k, u, pre))
         /\ StatsSize(cache') = Cardinality(KeysIn(cache'))
         /\ CacheInvalidate(cache', u, pre) = cache']_vars

\* an Invalidate with both filters took out one of two entries
C18_Witness ==
  /\ hist.last.name = "Invalidate"
  /\ hist.last.userID = UserA /\ hist.last.pathPrefix = PrefixSecrets
  /\ hist.last.removed = {CacheKey(UserA, PathSecret, OperationRead)}
  /\ StatsSize(cache) = 1

(***************************************************************************)
(* claims about OpenFile and Rename                                        *)
(***************************************************************************)
\* C19: OpenFile makes exactly one permission check; it asks for Write if
\* any of the write-only, read-write, append, create or truncate flags is
\* set, together with Read if the write-only flag is not set; only the
\* entries that grant the whole of that set take part in the decision
C19_OpenFileCombinedCheck ==
  \A p \in Procs :
    (pc[p] # "idle" /\ call[p].name = "OpenFile") =>
      LET flag == call[p].flag
          want == (IF flag \cap {"O_WRONLY", "O_RDWR", "O_APPEND", "O_CREATE", "O_TRUNC"} # {}
                     THEN {"Write"} ELSE {})
                  \cup (IF "O_WRONLY" \in flag THEN {} ELSE {"Read"})
          granting == SelectSeq(acl.Entries, LAMBDA e : want \subseteq e.Permissions)
          d == loc[p].decisions
      IN /\ call[p].checks = <<[Path |-> call[p].path, Operation |-> want]>>
         /\ Len(d) <= 1
         /\ loc[p].evaluations <= 1
         /\ Len(sink) - loc[p].sinkAtStart = Len(d)
         /\ Len(d) = 1 =>
              d[1] \in evaluateUncached([acl EXCEPT !.Entries = granting],
                                        [Identity |-> call[p].ctx.identity,
                                         Path |-> call[p].path,
                                         Operation |-> want,
                                         Metadata |-> call[p].ctx.metadata])

\* Alice opens /d/f read-write under default Allow: the entry that grants her
\* Read and Metadata there takes no part, and the default lets the call through
C19_Witness ==
  /\ pc["p1"] = "done"
  /\ call["p1"].name = "OpenFile"
  /\ call["p1"].flag = {"O_RDWR"}
  /\ call["p1"].path = PathData
  /\ call["p1"].ctx.identityKind = "set"
  /\ acl.Default = EffectAllow
  /\ loc["p1"].decisions = <<TRUE>>
  /\ backend["p1"] = "OpenFile"

PathAlphabet == {"/", "a", "b", "."}

\* every path of at most MaxPathLen characters
PathStrings == UNION {[1..n -> PathAlphabet] : n \in 0..MaxPathLen}

\* the directories whose subtree a pattern P/** names
Prefixes == {<<"/">>, <<"/", "a">>, <<"/", "a", "/", "b">>, <<"a">>}

DoubleStar(P) == P \o <<"/", "*", "*">>

PatternTripleStar == <<"/", "a", "/", "*", "*", "*">>   \* /a/***

PatternStrings ==
  {DoubleStar(P) : P \in Prefixes}
    \cup {<<"/", "a", "/", "*">>, <<"/", "a", "/", "?">>, <<"/", "a", "/", "b">>,
          <<"/", "*", "*", "/", "b">>, <<"a", "/", ".", "/", "*">>, <<"/", "a", "/", "[">>,
          PatternTripleStar}

\* NewPatternCache
NewPatternCache == [p \in {} |-> NewPatternMatcher(<<>>)]

\* PatternCache.GetOrCreate: the cached matcher, or a new one that is cached
\* unless NewPatternMatcher failed
GetOrCreate(patternCache, pattern) ==
  IF pattern \in DOMAIN patternCache
    THEN [matcher |-> patternCache[pattern], err |-> FALSE, cache |-> patternCache]
  ELSE LET made == NewPatternMatcher(pattern) IN
    IF made.err THEN [matcher |-> made, err |-> TRUE, cache |-> patternCache]
    ELSE [matcher |-> made, err |-> FALSE, cache |-> MapPut(patternCache, pattern, made)]

patternVars == <<acl, evalVars, cache, useCache, now, callVars, mutVars, cc, cacheOps,
                 al, lg, closer, accepted, hist>>

\* matchPattern(pattern, path)
MatchPatternCall ==
  /\ fn' = [fn EXCEPT !.op = "matchPattern", !.out = matchPattern(fn.pattern, fn.path)]
  /\ UNCHANGED patternVars

\* NewPatternMatcher(pattern)
Compile ==
  /\ fn' = [fn EXCEPT !.op = "NewPatternMatcher",
                      !.out = [matched |-> FALSE, err |-> NewPatternMatcher(fn.pattern).err]]
  /\ UNCHANGED patternVars

\* NewPatternMatcher(pattern) and, when it gave a matcher, Match(path) on it
CompileAndMatch ==
  /\ LET pm == NewPatternMatcher(fn.pattern) IN
       fn' = [fn EXCEPT !.op = IF pm.err THEN "NewPatternMatcher" ELSE "Match",
                        !.out = IF pm.err THEN ErrInvalidPattern
                                ELSE PatternMatcherMatch(pm, fn.path)]
  /\ UNCHANGED patternVars

\* patternCache.GetOrCreate(pattern)
GetOrCreateCall ==
  /\ LET r == GetOrCreate(fn.patternCache, fn.pattern) IN
       fn' = [fn EXCEPT !.op = "GetOrCreate",
                        !.out = [matched |-> FALSE, err |-> r.err],
                        !.patternCache = r.cache]
  /\ UNCHANGED patternVars

\* the pattern and the path are the inputs; nothing has been called yet
InitPattern ==
  /\ acl = [Entries |-> <<>>, Default |-> EffectDeny]
  /\ useCache = FALSE
  /\ EvalIdle /\ CacheNew /\ CallersIdle /\ MaintenanceIdle
  /\ cc = [p \in Procs |-> NoGet] /\ cacheOps = 0
  /\ al = NewAuditLogger("None", FALSE) /\ AuditIdle
  /\ hist = NoHistory
  /\ \E pattern \in PatternStrings : \E pathStr \in PathStrings :
       fn = [op |-> "none", pattern |-> pattern, path |-> pathStr,
             out |-> Matched(FALSE), patternCache |-> NewPatternCache]

NextPattern ==
  \/ MatchPatternCall
  \/ Compile
  \/ CompileAndMatch
  \/ GetOrCreateCall

SpecPattern == InitPattern /\ [][NextPattern]_vars

(***************************************************************************)
(* claims about the pattern matcher                                        *)
(***************************************************************************)
\* the names a path is made of once it is in canonical form
Names(s) == SelectSeq(Split(Clean(s)), LAMBDA x : x # <<>>)

Rooted(s) == Len(s) > 0 /\ s[1] = "/"

\* the path is the directory P or lies below it
AtOrBelow(P, pathStr) ==
  /\ Rooted(P) = Rooted(pathStr)
  /\ Len(Names(P)) <= Len(Names(pathStr))
  /\ SubSeq(Names(pathStr), 1, Len(Names(P))) = Names(P)

\* C21: for every prefix P the pattern P/** matches, without error, exactly
\* the paths that are P itself or lie below P, whether the match is made by
\* matchPattern or by a compiled PatternMatcher.
C21_DoubleStarMatchesSubtree ==
  \A P \in Prefixes :
    (fn.op \in {"matchPattern", "Match"} /\ fn.pattern = DoubleStar(P)) =>
      /\ ~fn.out.err
      /\ fn.out.matched <=> AtOrBelow(P, fn.path)

\* /a/** has just been matched against /a, the zero-segment case
C21_Witness ==
  /\ fn.op = "matchPattern"
  /\ fn.pattern = DoubleStar(<<"/", "a">>)
  /\ fn.path = <<"/", "a">>
  /\ fn.out.matched

\* strings.Contains(pattern, "***")
ContainsTripleStar(p) ==
  \E i \in 1..(Len(p) - 2) : p[i] = "*" /\ p[i + 1] = "*" /\ p[i + 2] = "*"

\* C22: compiling a pattern that contains *** fails with the InvalidPattern
\* error, through NewPatternMatcher and through PatternCache.GetOrCreate.
C22_TripleStarRejected ==
  (fn.op \in {"NewPatternMatcher", "GetOrCreate"} /\ ContainsTripleStar(fn.pattern)) =>
    fn.out.err

\* every "/" written twice
RECURSIVE DoubledSeparators(_)
DoubledSeparators(s) ==
  IF Len(s) = 0 THEN <<>>
  ELSE (IF s[1] = "/" THEN <<"/", "/">> ELSE <<s[1]>>) \o DoubledSeparators(Tail(s))

\* other spellings of a non-empty path: a trailing slash, a trailing ".",
\* a detour through a child and back, doubled separators, a leading "./"
Respellings(s) ==
  {s \o <<"/">>, s \o <<"/", ".">>, s \o <<"/", "a", "/", ".", ".">>,
   DoubledSeparators(s)}
    \cup (IF s[1] # "/" THEN {<<".", "/">> \o s} ELSE {})

\* C23: for every pattern, matchPattern and PatternMatcher.Match give every
\* other spelling of a path the result they gave the path itself.
C23_MatchDependsOnCanonicalPath ==
  Len(fn.path) > 0 =>
    \A q \in Respellings(fn.path) :
      /\ fn.op = "matchPattern" => matchPattern(fn.pattern, q) = fn.out
      /\ fn.op = "Match" =>
           PatternMatcherMatch(NewPatternMatcher(fn.pattern), q) = fn.out

\* a compiled /a/** has matched the path /a/., which is not in canonical form
C23_Witness ==
  /\ fn.op = "Match"
  /\ fn.pattern = DoubleStar(<<"/", "a">>)
  /\ fn.path = <<"/", "a", "/", ".">>
  /\ fn.out = Matched(TRUE)

(***************************************************************************)
(* SpecEdge: one caller whose requests sit at the edges of the interface:  *)
(* a path spelled in two ways, a cancelled context, an identity without a  *)
(* user id, a rule whose pattern is malformed and a rule whose condition   *)
(* function panics                                                         *)
(***************************************************************************)
PathSecretDot == <<"/", "s", "/", ".", "/", "k">>   \* /s/./k, another spelling of /s/k

\* an identity put in the context with an empty UserID
Anonymous == [UserID |-> <<>>, Groups |-> {}, Roles |-> {}]

\* a deny rule whose pattern /s/[ path.Match cannot parse
InvalidPatternEntry ==
  [Subject |-> User(UserA), PathPattern |-> <<"/", "s", "/", "[">>,
   Permissions |-> OperationAll, Effect |-> EffectDeny, Priority |-> 1,
   Conditions |-> <<>>]

\* a rule on /d/* for the group whose FuncCondition panics
PanicEntry ==
  [Subject |-> Group(GroupM), PathPattern |-> PatternDataStar,
   Permissions |-> OperationRead, Effect |-> EffectAllow, Priority |-> 0,
   Conditions |-> <<[Name |-> "check", Func |-> "panic"]>>]

EdgeEntries == BaseEntries \o <<InvalidPatternEntry, PanicEntry>>

EdgeContexts ==
  {Context("set", Alice, NoMetadata), Cancelled(Context("set", Alice, NoMetadata)),
   Context("set", Anonymous, NoMetadata)}

EdgeCalls ==
  {[name |-> "ReadDir", path |-> pa, newpath |-> <<>>, flag |-> {}, ctx |-> cx,
    checks |-> <<>>, idx |-> 0] :
     pa \in {PathSecret, PathSecretDot, PathData}, cx \in EdgeContexts}

InitEdge ==
  /\ acl \in [Entries : {EdgeEntries}, Default : {EffectAllow, EffectDeny}]
  /\ useCache \in BOOLEAN
  /\ EvalIdle /\ CacheNew /\ CallersIdle /\ MaintenanceIdle /\ DirectIdle
  /\ hist = NoHistory

NextEdge ==
  \/ \E c \in EdgeCalls : Call("p1", c)
  \/ CallSteps("p1")

SpecEdge == InitEdge /\ [][NextEdge]_vars

(***************************************************************************)
(* claims about requests at the edges of the interface                     *)
(***************************************************************************)
\* the keys of the entries the cache holds
CachedKeys(c) == {c.cell[c.entries[ks]].Key : ks \in DOMAIN c.entries}

\* C24: the cache holds one entry per user, operation and canonical path:
\* two spellings of one path never have an entry each.
C24_CanonicalCacheKey ==
  \A k1, k2 \in CachedKeys(cache) :
    (k1.UserID = k2.UserID /\ k1.Operation = k2.Operation
       /\ Clean(k1.Path) = Clean(k2.Path)) => k1 = k2

\* the caller's check has run evaluateUncached on the check at hand
Evaluated(p) ==
  /\ call[p].name # "none"
  /\ pc[p] \notin {"idle", "lookup", "finish", "eval"}
  /\ loc[p].evaluations > 0

\* the event the caller's check wrote, if it wrote one
Audited(p, result) ==
  /\ Len(sink) > loc[p].sinkAtStart
  /\ sink[Len(sink)].Result = result

\* C25: when a condition function panics during a check, the caller gets a
\* denial with reason "condition panic", an Error event is in the audit
\* log and the backend was not called.
C25_PanicContained ==
  (Evaluated("p1") /\ evaluatePanics(acl, EvaluationContext("p1"))) =>
    /\ ret["p1"].kind = "PermissionDenied"
    /\ ret["p1"].Reason = <<"condition panic">>
    /\ Audited("p1", "error")
    /\ backend["p1"] = "none"

\* C26: a call that arrives with a cancelled context is refused before any
\* cache access, evaluation or backend call.
C26_CancelledRefusedAtBoundary ==
  (call["p1"].name # "none" /\ call["p1"].ctx.cancelled) =>
    /\ loc["p1"].cacheAccesses = 0
    /\ loc["p1"].evaluations = 0
    /\ backend["p1"] = "none"

\* C27: a call whose identity has an empty user id gets ErrNoIdentity and
\* reaches neither the cache nor the evaluator.
C27_EmptyUserIDRefused ==
  (call["p1"].name # "none" /\ call["p1"].ctx.identityKind = "set"
     /\ call["p1"].ctx.identity.UserID = <<>>) =>
    /\ loc["p1"].cacheAccesses = 0
    /\ loc["p1"].evaluations = 0
    /\ pc["p1"] = "done" => ret["p1"] = ErrNoIdentity

\* evaluation of ctx calls matchPattern on an entry whose pattern is malformed
MeetsInvalidPattern(a, ctx) ==
  \E i \in 1..Len(a.Entries) :
    /\ IdentityMatches(ctx.Identity, a.Entries[i].Subject)
    /\ matchPattern(a.Entries[i].PathPattern, ctx.Path).err

\* C28: when evaluation meets an entry whose pattern is malformed, the check
\* ends with an error for the caller and an Error event in the audit log.
C28_InvalidPatternReported ==
  (Evaluated("p1") /\ pc["p1"] = "done"
     /\ MeetsInvalidPattern(acl, EvaluationContext("p1"))) =>
    /\ ret["p1"].kind = "ErrInvalidPattern"
    /\ Audited("p1", "error")

(***************************************************************************)
(* SpecPolicy: one goroutine maintaining the policy: AddRule, RemoveRule   *)
(* and the export of the ACL followed by the import of what was exported   *)
(***************************************************************************)
effectToString(effect) == IF effect = EffectAllow THEN "allow" ELSE "deny"

\* stringToEffect: (effect, error)
stringToEffect(str) ==
  CASE str = "allow" -> [effect |-> EffectAllow, err |-> FALSE]
    [] str = "deny" -> [effect |-> EffectDeny, err |-> FALSE]
    [] OTHER -> [effect |-> EffectDeny, err |-> TRUE]

subjectTypeToString(st) ==
  CASE st = "User" -> "user"
    [] st = "Group" -> "group"
    [] st = "Role" -> "role"
    [] st = "Everyone" -> "everyone"
    [] OTHER -> "unknown"

\* stringToSubjectType: (type, error)
stringToSubjectType(str) ==
  CASE str = "user" -> [type |-> "User", err |-> FALSE]
    [] str = "group" -> [type |-> "Group", err |-> FALSE]
    [] str = "role" -> [type |-> "Role", err |-> FALSE]
    [] str = "everyone" -> [type |-> "Everyone", err |-> FALSE]
    [] OTHER -> [type |-> "User", err |-> TRUE]

\* the operation bits in the order operationsToStrings tests them
OperationNames ==
  <<[op |-> OperationRead, name |-> "read"], [op |-> OperationWrite, name |-> "write"],
    [op |-> OperationExecute, name |-> "execute"], [op |-> OperationDelete, name |-> "delete"],
    [op |-> OperationMetadata, name |-> "metadata"], [op |-> OperationAdmin, name |-> "admin"]>>

RECURSIVE operationsToStringsFrom(_, _)
operationsToStringsFrom(ops, i) ==
  IF i > Len(OperationNames) THEN <<>>
  ELSE (IF ops \cap OperationNames[i].op # {} THEN <<OperationNames[i].name>> ELSE <<>>)
         \o operationsToStringsFrom(ops, i + 1)

operationsToStrings(ops) == operationsToStringsFrom(ops, 1)

\* stringsToOperations: (operations, error)
RECURSIVE stringsToOperations(_)
stringsToOperations(strs) ==
  IF Len(strs) = 0 THEN [ops |-> {}, err |-> FALSE]
  ELSE LET rest == stringsToOperations(Tail(strs))
           known == {i \in 1..Len(OperationNames) : OperationNames[i].name = Head(strs)}
       IN IF Head(strs) = "all" THEN [rest EXCEPT !.ops = @ \cup OperationAll]
          ELSE IF known = {} THEN [ops |-> {}, err |-> TRUE]
          ELSE [rest EXCEPT !.ops = @ \cup OperationNames[CHOOSE i \in known : TRUE].op]

\* ExportPolicy: a PolicyEntryExport has no field for the conditions
ExportPolicy(a, description) ==
  [Version |-> "1.0", Description |-> description, Default |-> effectToString(a.Default),
   Entries |-> [i \in 1..Len(a.Entries) |->
      [Subject |-> [Type |-> subjectTypeToString(a.Entries[i].Subject.Type),
                    ID |-> a.Entries[i].Subject.ID],
       PathPattern |-> a.Entries[i].PathPattern,
       Permissions |-> operationsToStrings(a.Entries[i].Permissions),
       Effect |-> effectToString(a.Entries[i].Effect),
       Priority |-> a.Entries[i].Priority]]]

\* ImportPolicy: (ACL, error); the entries it builds have nil Conditions
ImportPolicy(policy) ==
  LET bad(e) == \/ stringToSubjectType(e.Subject.Type).err
                \/ stringsToOperations(e.Permissions).err
                \/ stringToEffect(e.Effect).err
      failed == stringToEffect(policy.Default).err
                  \/ \E i \in 1..Len(policy.Entries) : bad(policy.Entries[i])
  IN [err |-> failed,
      acl |-> [Default |-> stringToEffect(policy.Default).effect,
               Entries |-> [i \in 1..Len(policy.Entries) |->
                 [Subject |-> [Type |-> stringToSubjectType(policy.Entries[i].Subject.Type).type,
                               ID |-> policy.Entries[i].Subject.ID],
                  PathPattern |-> policy.Entries[i].PathPattern,
                  Permissions |-> stringsToOperations(policy.Entries[i].Permissions).ops,
                  Effect |-> stringToEffect(policy.Entries[i].Effect).effect,
                  Priority |-> policy.Entries[i].Priority,
                  Conditions |-> <<>>]]]]

\* ImportPolicy(ExportPolicy(acl, "")) on the ACL of the evaluator
ExportImport ==
  /\ mpc = "idle"
  /\ fn' = [op |-> "ExportImport", in |-> acl, out |-> ImportPolicy(ExportPolicy(acl, ""))]
  /\ UNCHANGED <<acl, evalVars, cache, useCache, now, callVars, mutVars, cc, cacheOps,
                 al, lg, closer, accepted, hist>>

InitPolicy ==
  /\ acl \in [Entries : EntryLists, Default : {EffectAllow, EffectDeny}]
  /\ useCache = TRUE
  /\ EvalIdle /\ CacheNew /\ CallersIdle /\ MaintenanceIdle /\ DirectIdle
  /\ hist = NoHistory

NextPolicy ==
  \/ \E e \in EntryUniverse : AddRuleWrite(e)
  \/ \E e \in EntryUniverse : RemoveRuleWrite(e)
  \/ ClearCacheAndReturn
  \/ ExportImport

SpecPolicy == InitPolicy /\ [][NextPolicy]_vars

(***************************************************************************)
(* claims about policy maintenance                                         *)
(***************************************************************************)
\* C29: RemoveRule(e) leaves in the ACL, in their order, exactly the entries
\* that differ from e in some field: subject, pattern, permissions, effect,
\* priority or conditions.
C29_RemoveRuleExact ==
  (hist.lastRemove.version > 0 /\ hist.lastRemove.version = hist.aclVersion) =>
    acl.Entries = SelectSeq(hist.lastRemove.before, LAMBDA x : x # hist.lastRemove.entry)

\* how many times x occurs in the list
Occurrences(entries, x) == Cardinality({i \in 1..Len(entries) : entries[i] = x})

\* C30: importing the export of an ACL succeeds and gives the same default
\* effect and the same entries, each with every field as it was and as many
\* times as it was there.
C30_ExportImportIdentity ==
  fn.op = "ExportImport" =>
    /\ ~fn.out.err
    /\ fn.out.acl.Default = fn.in.Default
    /\ Len(fn.out.acl.Entries) = Len(fn.in.Entries)
    /\ \A x \in Range(fn.in.Entries) :
         Occurrences(fn.out.acl.Entries, x) = Occurrences(fn.in.Entries, x)

(***************************************************************************)
(* SpecOptimize: OptimizeACL (validation.go) applied to an ACL              *)
(***************************************************************************)
\* %s of a SubjectType: SubjectType.String
SubjectTypeString(st) ==
  CASE st = "User" -> <<"U", "s", "e", "r">>
    [] st = "Group" -> <<"G", "r", "o", "u", "p">>
    [] st = "Role" -> <<"R", "o", "l", "e">>
    [] st = "Everyone" -> <<"E", "v", "e", "r", "y", "o", "n", "e">>
    [] OTHER -> <<"U", "n", "k", "n", "o", "w", "n">>

\* %d of an Effect: EffectDeny is 0, EffectAllow is 1
EffectNumber(effect) == IF effect = EffectDeny THEN 0 ELSE 1

\* entryKey: fmt.Sprintf("%s:%s:%s:%d:%d", Subject.Type, Subject.ID,
\* PathPattern, Permissions, Effect)
entryKey(entry) ==
  SubjectTypeString(entry.Subject.Type) \o <<":">> \o entry.Subject.ID \o <<":">>
    \o entry.PathPattern \o <<":">> \o Decimal(OperationBits(entry.Permissions))
    \o <<":">> \o Decimal(EffectNumber(entry.Effect))

\* the loop of OptimizeACL: an entry is appended unless its key was seen
RECURSIVE OptimizeFrom(_, _, _, _)
OptimizeFrom(entries, i, seen, optimized) ==
  IF i > Len(entries) THEN optimized
  ELSE LET key == entryKey(entries[i]) IN
    IF key \notin seen
      THEN OptimizeFrom(entries, i + 1, seen \cup {key}, Append(optimized, entries[i]))
      ELSE OptimizeFrom(entries, i + 1, seen, optimized)

OptimizeACL(a) ==
  [Default |-> a.Default, Entries |-> OptimizeFrom(a.Entries, 1, {}, <<>>)]

\* rules whose user id or pattern holds a colon, and a rule for everyone
\* without a condition
UserColon == <<"a", ":", "/", "s">>                \* a:/s
PatternKey == <<"/", "k">>                          \* /k
PatternColon == <<"/", "s", ":", "/", "k">>         \* /s:/k

OptimizeEntries ==
  EntryUniverse \cup
    {[Subject |-> User(UserColon), PathPattern |-> PatternKey,
      Permissions |-> OperationAll, Effect |-> EffectAllow, Priority |-> 0,
      Conditions |-> <<>>],
     [Subject |-> User(UserA), PathPattern |-> PatternColon,
      Permissions |-> OperationAll, Effect |-> EffectAllow, Priority |-> 0,
      Conditions |-> <<>>],
     [Subject |-> Everyone, PathPattern |-> PatternAll,
      Permissions |-> OperationRead, Effect |-> EffectAllow, Priority |-> 0,
      Conditions |-> <<>>]}

OptimizeCall ==
  /\ fn.op = "none"
  /\ fn' = [op |-> "OptimizeACL", in |-> acl, out |-> OptimizeACL(acl)]
  /\ UNCHANGED <<acl, evalVars, cache, useCache, now, callVars, mutVars, cc, cacheOps,
                 al, lg, closer, accepted, hist>>

InitOptimize ==
  /\ acl \in [Entries : UNION {[1..n -> OptimizeEntries] : n \in 0..MaxEntries},
              Default : {EffectAllow, EffectDeny}]
  /\ useCache = FALSE
  /\ EvalIdle /\ CacheNew /\ CallersIdle /\ MaintenanceIdle /\ DirectIdle
  /\ hist = NoHistory

NextOptimize == OptimizeCall

SpecOptimize == InitOptimize /\ [][NextOptimize]_vars

(***************************************************************************)
(* claims about OptimizeACL                                                *)
(***************************************************************************)
\* the same subject, pattern, permissions and effect
SameRule(x, y) ==
  /\ x.Subject = y.Subject /\ x.PathPattern = y.PathPattern
  /\ x.Permissions = y.Permissions /\ x.Effect = y.Effect

\* the entries no earlier entry is a duplicate of, in their order
RECURSIVE FirstOccurrences(_, _)
FirstOccurrences(entries, i) ==
  IF i > Len(entries) THEN <<>>
  ELSE (IF \E j \in 1..(i - 1) : SameRule(entries[j], entries[i]) THEN <<>>
        ELSE <<entries[i]>>) \o FirstOccurrences(entries, i + 1)

\* C31: OptimizeACL keeps the default effect and returns, in their original
\* order, the first occurrence of every entry, two entries being duplicates
\* exactly when subject, pattern, permissions and effect are the same.
C31_OptimizeRemovesDuplicates ==
  fn.op = "OptimizeACL" =>
    /\ fn.out.Default = fn.in.Default
    /\ fn.out.Entries = FirstOccurrences(fn.in.Entries, 1)

\* C38: every context gets the same decision from OptimizeACL(acl) as from acl.
C38_OptimizePreservesDecisions ==
  fn.op = "OptimizeACL" =>
    \A ctx \in Contexts : evaluateUncached(fn.out, ctx) = evaluateUncached(fn.in, ctx)

(***************************************************************************)
(* claims about Log around Close                                           *)
(***************************************************************************)
\* C36: a Log call on an asynchronous logger that runs while Close runs or
\* after Close returned does not panic, and its event is not lost: once Close
\* has returned no event is left in the buffer, which nobody reads any more.
C36_LogAroundCloseSafe ==
  /\ ~(al.panicked /\ closer = "returned")
  /\ closer = "returned" => al.buffer = <<>>

(***************************************************************************)
(* claims about the audit events of a check                                *)
(***************************************************************************)
\* the events the running call of p1 has written
EventsOfCall == SubSeq(sink, loc["p1"].sinkAtStart + 1, Len(sink))

BasicOperations ==
  {OperationRead, OperationWrite, OperationExecute, OperationDelete,
   OperationMetadata, OperationAdmin}

\* Evaluator.GetEffectivePermissions: the bits whose own evaluation allows,
\* each asked with a context that holds no metadata
GetEffectivePermissions(a, identity, path) ==
  UNION {op \in BasicOperations :
           TRUE \in evaluateUncached(a, [Identity |-> identity, Path |-> path,
                                         Operation |-> op, Metadata |-> NoMetadata])}

\* PermFS.GetPermissions: (Operation, error)
GetPermissions(a, ctx, path) ==
  IF GetIdentity(ctx).err THEN [perms |-> {}, err |-> TRUE]
  ELSE [perms |-> GetEffectivePermissions(a, GetIdentity(ctx).identity, path),
        err |-> FALSE]

GetPermissionsCall ==
  /\ fn.op = "none"
  /\ \E ctx \in {Context("set", Alice, NoMetadata), Context("unset", Bob, NoMetadata)} :
       fn' = [op |-> "GetPermissions", ctx |-> ctx, path |-> PathSecret,
              out |-> GetPermissions(acl, ctx, PathSecret)]
  /\ UNCHANGED <<acl, evalVars, cache, useCache, now, callVars, mutVars, cc, cacheOps,
                 al, lg, closer, accepted, hist>>

\* rules for user a under /s that grant or deny Read, Write or everything
OpsEntries ==
  {[Subject |-> User(UserA), PathPattern |-> PatternSecrets, Permissions |-> perms,
    Effect |-> eff, Priority |-> pr, Conditions |-> <<>>] :
     perms \in {OperationRead, OperationWrite, OperationAll},
     eff \in {EffectAllow, EffectDeny}, pr \in 0..MaxPriority}

OpsCalls ==
  {[name |-> n, path |-> PathSecret, newpath |-> <<>>, flag |-> {},
    ctx |-> Context("set", Alice, NoMetadata), checks |-> <<>>, idx |-> 0] :
     n \in {"Mkdir", "ReadDir"}}
  \cup
  {[name |-> "OpenFile", path |-> PathSecret, newpath |-> <<>>, flag |-> {"O_RDWR"},
    ctx |-> Context("set", Alice, NoMetadata), checks |-> <<>>, idx |-> 0]}

InitOps ==
  /\ acl \in [Entries : UNION {[1..n -> OpsEntries] : n \in 0..MaxEntries},
              Default : {EffectAllow, EffectDeny}]
  /\ useCache = FALSE
  /\ EvalIdle /\ CacheNew /\ CallersIdle /\ MaintenanceIdle /\ DirectIdle
  /\ hist = NoHistory

\* without a cache Evaluate goes straight to evaluateUncached
NextOps ==
  \/ \E c \in OpsCalls : Call("p1", c)
  \/ EvalUncached("p1")
  \/ AuditAndReturn("p1")
  \/ Backend("p1")
  \/ GetPermissionsCall

SpecOps == InitOps /\ [][NextOps]_vars

(***************************************************************************)
(* claims about operation sets                                             *)
(***************************************************************************)
\* C34: the ACL staying as it is, when a check of one user on one path for
\* Write alone was denied, every check of that user on that path for
\* Read|Write (OpenFile with read-write flags) is denied too.
C34_DenyNotBypassedByCombinedSet ==
  \A i, j \in 1..Len(sink) :
    (/\ sink[i].UserID = sink[j].UserID /\ sink[i].Path = sink[j].Path
     /\ sink[i].Operation = OperationWrite /\ sink[i].Result = "denied"
     /\ sink[j].Operation = ReadWrite) => sink[j].Result = "denied"

\* C35: a call passes its permission check exactly when every operation bit
\* it requires is in the set GetPermissions returned for its identity and path.
C35_GetPermissionsAgreesWithEnforcement ==
  (/\ fn.op = "GetPermissions" /\ ~fn.out.err
   /\ pc["p1"] \in {"backend", "done"}
   /\ call["p1"].ctx.identity = fn.ctx.identity /\ call["p1"].path = fn.path) =>
    ((pc["p1"] = "backend" \/ backend["p1"] # "none")
       <=> call["p1"].checks[1].Operation \subseteq fn.out.perms)

(***************************************************************************)
(* SpecContext: a PermFS with a cache, a rule for a group and a rule with a *)
(* condition; one caller lists directories for requests that share a user  *)
(* id and differ in groups or in metadata                                  *)
(***************************************************************************)
\* user a again, in no group and with no role
AliceAlone == [UserID |-> UserA, Groups |-> {}, Roles |-> {}]

\* members of m may read under /d; everyone may read from the office
ContextEntries ==
  <<[Subject |-> Group(GroupM), PathPattern |-> PatternDataStar,
     Permissions |-> OperationRead \cup OperationMetadata, Effect |-> EffectAllow,
     Priority |-> 0, Conditions |-> <<>>],
    [Subject |-> Everyone, PathPattern |-> PatternAll,
     Permissions |-> OperationRead, Effect |-> EffectAllow, Priority |-> 0,
     Conditions |-> <<OfficeCondition>>]>>

ContextCalls ==
  {[name |-> "ReadDir", path |-> pa, newpath |-> <<>>, flag |-> {},
    ctx |-> Context("set", id, md), checks |-> <<>>, idx |-> 0] :
     pa \in {PathSecret, PathData}, id \in {Alice, AliceAlone, Bob},
     md \in {NoMetadata, MetadataIP}}

InitContext ==
  /\ acl \in [Entries : {ContextEntries}, Default : {EffectAllow, EffectDeny}]
  /\ useCache = TRUE
  /\ EvalIdle /\ CacheNew /\ CallersIdle /\ MaintenanceIdle /\ DirectIdle
  /\ hist = NoHistory

NextContext ==
  \/ \E c \in ContextCalls : Call("p1", c)
  \/ CallSteps("p1")

SpecContext == InitContext /\ [][NextContext]_vars

(***************************************************************************)
(* claims about cached decisions and the request context                   *)
(***************************************************************************)
\* C33: a decision served from the cache is the decision an uncached
\* evaluation gives for the current ACL and the whole context of the request:
\* identity with groups and roles, path, operation and metadata.
C33_CachedEqualsFresh ==
  (pc["p1"] = "audit" /\ loc["p1"].found) =>
    loc["p1"].allowed \in evaluateUncached(acl, EvaluationContext("p1"))

(***************************************************************************)
(* SpecKeys: one goroutine calling Set and Get on a PermissionCache that   *)
(* has room for every key in use; user ids and paths may hold a colon      *)
(***************************************************************************)
ColonKeys ==
  {CacheKey(UserColon, PatternKey, OperationRead),     \* user a:/s, path /k
   CacheKey(UserA, PatternColon, OperationRead),       \* user a, path /s:/k
   CacheKey(UserB, PathSecret, OperationRead)}

\* what Get(key) would return now
GetResult(c, key) ==
  LET r == CacheGetFinish(c, key, CacheLookup(c, key), now)
  IN [found |-> r.found, allowed |-> r.allowed]

\* PermissionCache.Set; fn keeps what Get would have returned for every key
\* before the call and what it returns after it
KeySet(key, allowed) ==
  /\ cacheOps < MaxCacheOps
  /\ cacheOps' = cacheOps + 1
  /\ cache' = Collect(CacheSet(cache, key, allowed, now, cache.maxSize, cache.ttl))
  /\ fn' = [op |-> "Set", key |-> key,
            before |-> [k \in ColonKeys |-> GetResult(cache, k)],
            after |-> [k \in ColonKeys |-> GetResult(cache', k)]]
  /\ UNCHANGED <<acl, evalVars, useCache, now, callVars, mutVars, cc, al, lg, closer,
                 accepted, hist>>

\* PermissionCache.Get
KeyGet(key) ==
  /\ cacheOps < MaxCacheOps
  /\ cacheOps' = cacheOps + 1
  /\ cache' = Collect(CacheGetFinish(cache, key, CacheLookup(cache, key), now).cache)
  /\ fn' = [op |-> "Get", key |-> key, out |-> GetResult(cache, key)]
  /\ UNCHANGED <<acl, evalVars, useCache, now, callVars, mutVars, cc, al, lg, closer,
                 accepted, hist>>

InitKeys ==
  /\ acl = [Entries |-> <<>>, Default |-> EffectDeny]
  /\ useCache = TRUE
  /\ EvalIdle /\ CallersIdle /\ MaintenanceIdle /\ DirectIdle
  /\ now = 0
  /\ cache = [NewPermissionCache EXCEPT !.maxSize = Cardinality(ColonKeys)]
  /\ hist = NoHistory

NextKeys ==
  \/ \E k \in ColonKeys : \E allowed \in BOOLEAN : KeySet(k, allowed)
  \/ \E k \in ColonKeys : KeyGet(k)
  \/ TickSeq

SpecKeys == InitKeys /\ [][NextKeys]_vars

(***************************************************************************)
(* claims about cache keys                                                 *)
(***************************************************************************)
\* C40: a Set for one key changes what Get returns for no key that differs
\* from it in user id, path or operation.
C40_DistinctKeysDistinctSlots ==
  fn.op = "Set" =>
    \A k \in ColonKeys \ {fn.key} : fn.after[k] = fn.before[k]

(***************************************************************************)
(* SpecRace: a caller checking permissions while another goroutine runs    *)
(* RemoveRule.  Neither the evaluator nor PermFS has a lock around the     *)
(* entry list: RemoveRule stores the words of the new slice header (the    *)
(* array pointer and the length) one after the other, and the range loop   *)
(* of evaluateUncached loads them whenever it runs.  The order of the two  *)
(* stores is the compiler's and the processor's choice.  fn holds the list *)
(* before the call (pre), the list RemoveRule built (post), the words      *)
(* stored so far and, as history, every entry list an evaluation ranged    *)
(* over (views).                                                           *)
(***************************************************************************)
\* the zero value of ACLEntry: a cell of a fresh array that was never written
ZeroEntry ==
  [Subject |-> User(<<>>), PathPattern |-> <<>>, Permissions |-> {},
   Effect |-> EffectDeny, Priority |-> 0, Conditions |-> <<>>]

\* the entry lists the header can stand for while RemoveRule stores it: the
\* array and the length each are the old or the new one; a cell past the
\* end of the array holds a zero entry or whatever entry was left there
EntriesViews ==
  IF mpc # "store" THEN {acl.Entries}
  ELSE LET array == IF "ptr" \in fn.stored THEN fn.post ELSE fn.pre
           n == IF "len" \in fn.stored THEN Len(fn.post) ELSE Len(fn.pre)
       IN {[i \in 1..n |-> IF i <= Len(array) THEN array[i] ELSE g] :
             g \in {ZeroEntry} \cup Range(fn.pre)}

\* RemoveRule up to the assignment of the entry list: newEntries is built
RemoveRuleBegin(entry) ==
  /\ mpc = "idle"
  /\ mutations < MaxMutations
  /\ mutations' = mutations + 1
  /\ mpc' = "store"
  /\ fn' = [fn EXCEPT !.op = "RemoveRule", !.pre = acl.Entries,
                      !.post = RemoveRuleKeep(acl.Entries, entry), !.stored = {}]
  /\ UNCHANGED <<acl, evalVars, cache, useCache, now, callVars, cc, cacheOps,
                 al, lg, closer, accepted, hist>>

\* pfs.evaluator.acl.Entries = newEntries, one word of the header
StoreWord(w) ==
  /\ mpc = "store"
  /\ w \notin fn.stored
  /\ fn' = [fn EXCEPT !.stored = @ \cup {w}]
  /\ IF fn.stored \cup {w} = {"ptr", "len"}
       THEN /\ acl' = [acl EXCEPT !.Entries = fn.post]
            /\ mpc' = "clear"
            /\ hist' = [hist EXCEPT !.aclVersion = @ + 1]
       ELSE UNCHANGED <<acl, mpc, hist>>
  /\ UNCHANGED <<evalVars, cache, useCache, now, callVars, mutations, cc, cacheOps,
                 al, lg, closer, accepted>>

\* Evaluate, evaluateUncached: the range loop takes the header as it finds it
EvalUncachedRacing(p) ==
  /\ pc[p] = "eval"
  /\ \E entries \in EntriesViews :
       LET a == [acl EXCEPT !.Entries = entries] IN
       /\ fn' = [fn EXCEPT !.views = @ \cup {entries}]
       /\ IF evaluatePanics(a, EvaluationContext(p))
            THEN /\ loc' = [loc EXCEPT ![p].evaluations = @ + 1]
                 /\ pc' = [pc EXCEPT ![p] = "panicked"]
                 /\ ret' = [ret EXCEPT ![p] = Panic]
            ELSE /\ \E allowed \in evaluateUncached(a, EvaluationContext(p)) :
                      loc' = [loc EXCEPT ![p].allowed = allowed,
                                         ![p].version = hist.aclVersion,
                                         ![p].evaluations = @ + 1]
                 /\ pc' = [pc EXCEPT ![p] = IF useCache THEN "set" ELSE "audit"]
                 /\ ret' = ret
  /\ UNCHANGED <<acl, evalVars, cache, useCache, now, call, backend, sink, calls,
                 mutVars, cc, cacheOps, al, lg, closer, accepted, hist>>

\* Alice may do anything under /s, and a rule of higher priority denies it
RaceEntries == <<BaseEntries[1], DenySecrets>>

InitRace ==
  /\ acl \in [Entries : {RaceEntries}, Default : {EffectAllow, EffectDeny}]
  /\ useCache = TRUE
  /\ EvalIdle /\ CacheNew /\ CallersIdle /\ MaintenanceIdle
  /\ cc = [p \in Procs |-> NoGet] /\ cacheOps = 0
  /\ al = NewAuditLogger("None", FALSE) /\ AuditIdle
  /\ fn = [op |-> "none", pre |-> <<>>, post |-> <<>>, stored |-> {}, views |-> {}]
  /\ hist = NoHistory

NextRace ==
  \/ \E c \in ConcurrentCalls : Call("p1", c)
  \/ GetLookup("p1")
  \/ GetFinish("p1")
  \/ EvalUncachedRacing("p1")
  \/ SetCache("p1")
  \/ AuditAndReturn("p1")
  \/ Backend("p1")
  \/ \E e \in Range(RaceEntries) : RemoveRuleBegin(e)
  \/ \E w \in {"ptr", "len"} : StoreWord(w)
  \/ ClearCacheAndReturn

SpecRace == InitRace /\ [][NextRace]_vars

(***************************************************************************)
(* claims about checks that run beside a mutation                          *)
(***************************************************************************)
\* C32: a permission check that runs while RemoveRule runs evaluates against
\* the whole entry list as it was before the call or the whole list as it is
\* after it, never against anything else.
C32_NoTornEntryList ==
  fn.op = "RemoveRule" => \A entries \in fn.views : entries \in {fn.pre, fn.post}

====
